---------------------------- MODULE Spec2Model ----------------------------
(***************************************************************************)
(* A model of nft_rbtree.c: the array-backed red-black tree of the Nifty   *)
(* library.  The tree is a record holding the node arena (a function from  *)
(* slot index to node record, slot 0 the NIL sentinel), next_free,         *)
(* num_nodes (the capacity), min_nodes, the tree-owned walk cursor         *)
(* `current` and the comparator.  Every C function is an operator from     *)
(* tree records to tree records; every public call is one action.          *)
(*                                                                         *)
(* The arena function has the domain 0 .. next_free-1 (empty while the     *)
(* nodes pointer is NULL): the slots at and above next_free hold whatever  *)
(* realloc or the last compaction left there, so a read of such a slot is  *)
(* a read outside the domain and stops the model checker.                  *)
(***************************************************************************)
EXTENDS Integers, Sequences, FiniteSets, TLC

VARIABLES
    nodes,       \* tree->nodes: the arena, <<>> while the pointer is NULL
    next_free,   \* tree->next_free
    num_nodes,   \* tree->num_nodes: the capacity of the arena
    min_nodes,   \* tree->min_nodes
    current,     \* tree->current: the cursor of the tree-owned walk
    compare,     \* tree->compare: "strings" or "duplex"
    fault,       \* the process died on a NULL arena pointer
    last,        \* the last public call: its arguments, result and out values
    walking,     \* a tree-owned walk is in progress (walk_first .. no-more)
    lastkey,     \* the key the walk in progress returned last (0: none)
    locking,     \* tree->locking
    rwlock,      \* tree->rwlock: what each thread holds of it
    pc           \* where each thread is in its call, and its own walk cursor

\* the state of the threads
lockvars == <<locking, rwlock, pc>>

vars == <<nodes, next_free, num_nodes, min_nodes, current, compare, fault,
          last, walking, lastkey, lockvars>>

-----------------------------------------------------------------------------
(* Bounds of the model. *)

MaxKey == 5        \* the keys of the caller of Spec are 1 .. MaxKey
MaxNodes == 5      \* the entries it lets the tree hold
MaxWalkKey == 4    \* the keys of the walking caller
MaxCursorKey == 3  \* the keys of the walking caller that replaces
MaxDupKey == 2     \* the keys of the callers that insert equal keys
MaxData == 2       \* their data values
MaxDupNodes == 3   \* the entries they let the tree hold
MaxCapKey == 4     \* the keys of the caller that watches the capacity
MaxThreads == 2    \* the threads that share a tree
MaxLockKey == 2    \* the keys they use
MaxHeld == 2       \* the read locks one thread is let hold at a time
MaxFairKey == 1    \* the keys of the calls that wait for the lock

-----------------------------------------------------------------------------
(* The macros of nft_rbtree.c. *)

NIL == 0

NULL == 0

IS_NIL(n) == n = NIL

LEFT(ns, n) == ns[n].child[0]

RIGHT(ns, n) == ns[n].child[1]

CHILD(ns, n, w) == ns[n].child[w]

ROOT(ns) == LEFT(ns, NIL)

PARENT(ns, n) == ns[n].parent

SET_PARENT(ns, n, p) == [ns EXCEPT ![n].parent = p]

SET_CHILD(ns, n, w, c) == [ns EXCEPT ![n].child[w] = c]

RED(ns, n) == ns[n].red

SET_RED(ns, n) == [ns EXCEPT ![n].red = TRUE]

RESET_RED(ns, n) == [ns EXCEPT ![n].red = FALSE]

KEY(ns, n) == ns[n].key

DATA(ns, n) == ns[n].data

\* (nft_rbnode) { key, data, { NIL, NIL }, parent, 0 }
NewNode(key, data, parent) ==
    [key |-> key, data |-> data, child |-> [w \in {0, 1} |-> NIL],
     parent |-> parent, red |-> FALSE]

\* (nft_rbnode) { 0 }: the sentinel as resize_nodes initialises it
Sentinel == NewNode(NULL, NULL, NIL)

NoNodes == <<>>

-----------------------------------------------------------------------------
(* The comparators.  strcmp on keys; strcmp_duplex on keys, then on data. *)

rbtree_compare_strings(s1, s2) == s1 - s2

\* strcmp_duplex that leaves the data out
strcmp_keys_only(key1, key2, tok1, tok2) == key1 - key2

strcmp_duplex(key1, key2, tok1, tok2) ==
    LET res == key1 - key2
    IN  IF res = 0 THEN tok1 - tok2 ELSE res

\* compare(key1, key2, data1, data2) as the tree calls it
Compare(cmp, key1, key2, data1, data2) ==
    IF cmp = "duplex"
    THEN strcmp_duplex(key1, key2, data1, data2)
    ELSE rbtree_compare_strings(key1, key2)

-----------------------------------------------------------------------------
(* node_first, node_successor *)

RECURSIVE Leftmost(_, _)
Leftmost(ns, node) ==
    IF ~IS_NIL(LEFT(ns, node)) THEN Leftmost(ns, LEFT(ns, node)) ELSE node

node_first(tree) ==
    IF tree.nodes = NoNodes THEN NIL
    ELSE IF IS_NIL(ROOT(tree.nodes)) THEN NIL
    ELSE Leftmost(tree.nodes, ROOT(tree.nodes))

RECURSIVE Ascend(_, _)
Ascend(ns, node) ==
    LET parent == PARENT(ns, node)
    IN  IF ~IS_NIL(parent) /\ node = RIGHT(ns, parent)
        THEN Ascend(ns, parent)
        ELSE parent

\* node_successor without the climb past right children
node_successor_no_climb(tree, node) ==
    IF ~IS_NIL(RIGHT(tree.nodes, node))
    THEN Leftmost(tree.nodes, RIGHT(tree.nodes, node))
    ELSE PARENT(tree.nodes, node)

node_successor(tree, node) ==
    IF ~IS_NIL(RIGHT(tree.nodes, node))
    THEN Leftmost(tree.nodes, RIGHT(tree.nodes, node))
    ELSE Ascend(tree.nodes, node)

-----------------------------------------------------------------------------
(* attach_leaf, rotate, insert_fixup, insert_node *)

attach_leaf(tree, parent, key, data, which) ==
    LET node == tree.next_free
        ns1  == [i \in (DOMAIN tree.nodes) \cup {node} |->
                    IF i = node THEN NewNode(key, data, parent)
                    ELSE tree.nodes[i]]
        ns2  == SET_CHILD(ns1, parent, which, node)
    IN  [tree |-> [tree EXCEPT !.nodes = ns2, !.next_free = node + 1],
         node |-> node]

\* rotate that leaves the parent of the subtree it moves from gs to s as it was
rotate_no_reparent(ns, node, s, gs) ==
    LET left  == IF gs = LEFT(ns, s) THEN 0 ELSE 1
        right == 1 - left
        Lift(n1) == SET_PARENT(SET_CHILD(n1, gs, right, s), s, gs)
        Hang(n4) ==
            SET_PARENT(IF s = LEFT(n4, node)
                       THEN SET_CHILD(n4, node, 0, gs)
                       ELSE SET_CHILD(n4, node, 1, gs),
                       gs, node)
    IN  Hang(Lift(SET_CHILD(ns, s, left, CHILD(ns, gs, right))))

rotate(ns, node, s, gs) ==
    LET left  == IF gs = LEFT(ns, s) THEN 0 ELSE 1
        right == 1 - left
        \* gs takes s as its child, and s takes gs as its parent
        Lift(n1) ==
            SET_PARENT(SET_CHILD(SET_PARENT(n1, CHILD(n1, gs, right), s),
                                 gs, right, s),
                       s, gs)
        \* node takes gs in the place of s
        Hang(n4) ==
            SET_PARENT(IF s = LEFT(n4, node)
                       THEN SET_CHILD(n4, node, 0, gs)
                       ELSE SET_CHILD(n4, node, 1, gs),
                       gs, node)
    IN  Hang(Lift(SET_CHILD(ns, s, left, CHILD(ns, gs, right))))

\* One pass of the while loop of insert_fixup (lines 209-233), entered with
\* x not the root and its parent red: the arena and x it leaves, the nodes
\* it has colored red and the rotations it has made.
insert_fixup_body(ns, x) ==
    LET p     == PARENT(ns, x)
        gp    == PARENT(ns, p)
        right == IF p = LEFT(ns, gp) THEN 1 ELSE 0
        left  == 1 - right
        y     == CHILD(ns, gp, right)
        \* line 231: the rotation of p above gp
        Outer(n2, x1, p1, gp1, rots) ==
            [nodes |-> rotate(n2, PARENT(n2, gp1), gp1, p1), x |-> x1,
             reds |-> {gp1}, rotations |-> rots + 1]
        \* lines 229-230
        Recolor(n1, x1, p1, gp1, rots) ==
            Outer(SET_RED(RESET_RED(n1, p1), gp1), x1, p1, gp1, rots)
        \* lines 225-227: x, p and gp read again after the inner rotation
        Inner(n1) ==
            LET x1  == CHILD(n1, x, left)
                p1  == PARENT(n1, x1)
                gp1 == PARENT(n1, p1)
            IN  Recolor(n1, x1, p1, gp1, 1)
    IN  IF RED(ns, y)
        THEN [nodes |-> SET_RED(RESET_RED(RESET_RED(ns, y), p), gp), x |-> gp,
              reds |-> {gp}, rotations |-> 0]
        ELSE IF x = CHILD(ns, p, right)
        THEN Inner(rotate(ns, gp, p, x))
        ELSE Recolor(ns, x, p, gp, 0)

\* the test of the while loop of insert_fixup (line 207)
insert_fixup_test(ns, x) == x # ROOT(ns) /\ RED(ns, PARENT(ns, x))

RECURSIVE insert_fixup(_, _)
insert_fixup(ns, x) ==
    LET Loop(b) == insert_fixup(b.nodes, b.x)
    IN  IF insert_fixup_test(ns, x)
        THEN Loop(insert_fixup_body(ns, x))
        ELSE RESET_RED(ns, ROOT(ns))

\* insert_descend that goes left where the key compares equal
RECURSIVE insert_descend_left_on_equal(_, _, _, _)
insert_descend_left_on_equal(tree, node, key, data) ==
    LET ns   == tree.nodes
        comp == Compare(tree.compare, key, KEY(ns, node), data, DATA(ns, node))
        x    == IF comp <= 0 THEN LEFT(ns, node) ELSE RIGHT(ns, node)
    IN  IF ~IS_NIL(x) THEN insert_descend_left_on_equal(tree, x, key, data)
        ELSE [node |-> node, comp |-> IF comp = 0 THEN -1 ELSE comp]

\* insert_descend with the arguments of the comparator exchanged
RECURSIVE insert_descend_swapped(_, _, _, _)
insert_descend_swapped(tree, node, key, data) ==
    LET ns   == tree.nodes
        comp == Compare(tree.compare, KEY(ns, node), key, DATA(ns, node), data)
        x    == IF comp < 0 THEN LEFT(ns, node) ELSE RIGHT(ns, node)
    IN  IF ~IS_NIL(x) THEN insert_descend_swapped(tree, x, key, data)
        ELSE [node |-> node, comp |-> comp]

\* the do-while of insert_node: the node to attach under, and the last comp
RECURSIVE insert_descend(_, _, _, _)
insert_descend(tree, node, key, data) ==
    LET ns   == tree.nodes
        comp == Compare(tree.compare, key, KEY(ns, node), data, DATA(ns, node))
        x    == IF comp < 0 THEN LEFT(ns, node) ELSE RIGHT(ns, node)
    IN  IF ~IS_NIL(x) THEN insert_descend(tree, x, key, data)
        ELSE [node |-> node, comp |-> comp]

\* insert_node up to the call of insert_fixup (lines 246-270): the tree
\* with the new leaf attached and colored red, and the leaf
insert_leaf(tree, key, data) ==
    LET at  == insert_descend(tree, ROOT(tree.nodes), key, data)
        Red(att) == [tree |-> [att.tree EXCEPT !.nodes = SET_RED(@, att.node)],
                     leaf |-> att.node]
    IN  Red(attach_leaf(tree, at.node, key, data, IF at.comp >= 0 THEN 1 ELSE 0))

insert_node(tree, key, data) ==
    LET Fix(l) == [l.tree EXCEPT !.nodes = insert_fixup(@, l.leaf)]
    IN  Fix(insert_leaf(tree, key, data))

-----------------------------------------------------------------------------
(* delete_fixup, delete_node *)

\* delete_fixup_body that ends the pass after the rotation of a red sibling
\* and leaves the black sibling to the next pass
delete_fixup_body_continue(ns, x) ==
    LET p     == PARENT(ns, x)
        right == IF x = LEFT(ns, p) THEN 1 ELSE 0
        left  == 1 - right
        w0    == CHILD(ns, p, right)
        Done(n6, a) ==
            [nodes |-> n6, x |-> ROOT(n6), exit |-> TRUE, ws |-> a.ws,
             reds |-> a.reds, rotations |-> a.rotations + 1]
        Last(n5, w, a) == Done(rotate(n5, PARENT(n5, p), p, w), a)
        FarBlack(n4, w, a) == Last(RESET_RED(n4, CHILD(n4, w, right)), w, a)
        Far(n2, w, a) ==
            FarBlack(RESET_RED(IF RED(n2, p) THEN SET_RED(n2, w)
                               ELSE RESET_RED(n2, w), p), w,
                     [a EXCEPT !.reds = IF RED(n2, p) THEN @ \cup {w} ELSE @])
        NearSeen(n2, w, a) == Far(n2, w, [a EXCEPT !.ws = Append(@, w)])
        NearDone(n2, a) == NearSeen(n2, CHILD(n2, p, right), a)
        NearRotate(m0, w, a) ==
            NearDone(rotate(m0, p, w, CHILD(m0, w, left)),
                     [a EXCEPT !.rotations = @ + 1])
        Near(n1, w, a) ==
            NearRotate(SET_RED(RESET_RED(n1, CHILD(n1, w, left)), w), w,
                       [a EXCEPT !.reds = @ \cup {w}])
        Black(n1, w, a) ==
            IF ~RED(n1, LEFT(n1, w)) /\ ~RED(n1, RIGHT(n1, w))
            THEN [nodes |-> SET_RED(n1, w), x |-> p, exit |-> FALSE, ws |-> a.ws,
                  reds |-> a.reds \cup {w}, rotations |-> a.rotations]
            ELSE IF ~RED(n1, CHILD(n1, w, right))
            THEN Near(n1, w, a)
            ELSE Far(n1, w, a)
        RedRotate(n0, a) ==
            [nodes |-> rotate(n0, PARENT(n0, p), p, w0), x |-> x, exit |-> FALSE,
             ws |-> a.ws, reds |-> a.reds, rotations |-> a.rotations + 1]
    IN  IF RED(ns, w0)
        THEN RedRotate(SET_RED(RESET_RED(ns, w0), p),
                       [ws |-> <<w0>>, reds |-> {p}, rotations |-> 0])
        ELSE Black(ns, w0, [ws |-> <<w0>>, reds |-> {}, rotations |-> 0])

\* delete_fixup_body that colors x, not its sibling, in the case of the
\* black sibling with black children
delete_fixup_body_red_x(ns, x) ==
    LET p     == PARENT(ns, x)
        right == IF x = LEFT(ns, p) THEN 1 ELSE 0
        left  == 1 - right
        w0    == CHILD(ns, p, right)
        Done(n6, a) ==
            [nodes |-> n6, x |-> ROOT(n6), exit |-> TRUE, ws |-> a.ws,
             reds |-> a.reds, rotations |-> a.rotations + 1]
        Last(n5, w, a) == Done(rotate(n5, PARENT(n5, p), p, w), a)
        FarBlack(n4, w, a) == Last(RESET_RED(n4, CHILD(n4, w, right)), w, a)
        Far(n2, w, a) ==
            FarBlack(RESET_RED(IF RED(n2, p) THEN SET_RED(n2, w)
                               ELSE RESET_RED(n2, w), p), w,
                     [a EXCEPT !.reds = IF RED(n2, p) THEN @ \cup {w} ELSE @])
        NearSeen(n2, w, a) == Far(n2, w, [a EXCEPT !.ws = Append(@, w)])
        NearDone(n2, a) == NearSeen(n2, CHILD(n2, p, right), a)
        NearRotate(m0, w, a) ==
            NearDone(rotate(m0, p, w, CHILD(m0, w, left)),
                     [a EXCEPT !.rotations = @ + 1])
        Near(n1, w, a) ==
            NearRotate(SET_RED(RESET_RED(n1, CHILD(n1, w, left)), w), w,
                       [a EXCEPT !.reds = @ \cup {w}])
        Black(n1, w, a) ==
            IF ~RED(n1, LEFT(n1, w)) /\ ~RED(n1, RIGHT(n1, w))
            THEN [nodes |-> SET_RED(n1, x), x |-> p, exit |-> FALSE, ws |-> a.ws,
                  reds |-> a.reds \cup {x}, rotations |-> a.rotations]
            ELSE IF ~RED(n1, CHILD(n1, w, right))
            THEN Near(n1, w, a)
            ELSE Far(n1, w, a)
        RedSeen(n1, w, a) == Black(n1, w, [a EXCEPT !.ws = Append(@, w)])
        RedDone(n1, a) == RedSeen(n1, CHILD(n1, p, right), a)
        RedRotate(n0, a) ==
            RedDone(rotate(n0, PARENT(n0, p), p, w0), [a EXCEPT !.rotations = @ + 1])
    IN  IF RED(ns, w0)
        THEN RedRotate(SET_RED(RESET_RED(ns, w0), p),
                       [ws |-> <<w0>>, reds |-> {p}, rotations |-> 0])
        ELSE Black(ns, w0, [ws |-> <<w0>>, reds |-> {}, rotations |-> 0])

\* One pass of the while loop of delete_fixup (lines 290-331), entered with
\* x not the root and black: the arena and x it leaves, whether it leaves
\* the loop by the break, the siblings w it has read (the values the three
\* assertions test), the nodes it has colored red and the rotations it has
\* made.
delete_fixup_body(ns, x) ==
    LET p     == PARENT(ns, x)
        right == IF x = LEFT(ns, p) THEN 1 ELSE 0
        left  == 1 - right
        w0    == CHILD(ns, p, right)
        \* lines 328-329: x = ROOT, break
        Done(n6, a) ==
            [nodes |-> n6, x |-> ROOT(n6), exit |-> TRUE, ws |-> a.ws,
             reds |-> a.reds, rotations |-> a.rotations + 1]
        \* line 327
        Last(n5, w, a) == Done(rotate(n5, PARENT(n5, p), p, w), a)
        \* line 326
        FarBlack(n4, w, a) == Last(RESET_RED(n4, CHILD(n4, w, right)), w, a)
        \* lines 321-325: w takes the color of p, p becomes black
        Far(n2, w, a) ==
            FarBlack(RESET_RED(IF RED(n2, p) THEN SET_RED(n2, w)
                               ELSE RESET_RED(n2, w), p), w,
                     [a EXCEPT !.reds = IF RED(n2, p) THEN @ \cup {w} ELSE @])
        \* line 318: w read again after the rotation
        NearSeen(n2, w, a) == Far(n2, w, [a EXCEPT !.ws = Append(@, w)])
        NearDone(n2, a) == NearSeen(n2, CHILD(n2, p, right), a)
        \* line 317
        NearRotate(m0, w, a) ==
            NearDone(rotate(m0, p, w, CHILD(m0, w, left)),
                     [a EXCEPT !.rotations = @ + 1])
        \* lines 315-316
        Near(n1, w, a) ==
            NearRotate(SET_RED(RESET_RED(n1, CHILD(n1, w, left)), w), w,
                       [a EXCEPT !.reds = @ \cup {w}])
        \* lines 305-330: w is black
        Black(n1, w, a) ==
            IF ~RED(n1, LEFT(n1, w)) /\ ~RED(n1, RIGHT(n1, w))
            THEN [nodes |-> SET_RED(n1, w), x |-> p, exit |-> FALSE, ws |-> a.ws,
                  reds |-> a.reds \cup {w}, rotations |-> a.rotations]
            ELSE IF ~RED(n1, CHILD(n1, w, right))
            THEN Near(n1, w, a)
            ELSE Far(n1, w, a)
        \* line 302: w read again after the rotation
        RedSeen(n1, w, a) == Black(n1, w, [a EXCEPT !.ws = Append(@, w)])
        RedDone(n1, a) == RedSeen(n1, CHILD(n1, p, right), a)
        \* line 301
        RedRotate(n0, a) ==
            RedDone(rotate(n0, PARENT(n0, p), p, w0), [a EXCEPT !.rotations = @ + 1])
    IN  IF RED(ns, w0)
        THEN RedRotate(SET_RED(RESET_RED(ns, w0), p),
                       [ws |-> <<w0>>, reds |-> {p}, rotations |-> 0])
        ELSE Black(ns, w0, [ws |-> <<w0>>, reds |-> {}, rotations |-> 0])

\* the test of the while loop of delete_fixup (line 290)
delete_fixup_test(ns, x) == x # ROOT(ns) /\ ~RED(ns, x)

\* delete_fixup that leaves x the color the loop left it
RECURSIVE delete_fixup_no_reset(_, _)
delete_fixup_no_reset(ns, x) ==
    LET Loop(b) == IF b.exit THEN b.nodes
                   ELSE delete_fixup_no_reset(b.nodes, b.x)
    IN  IF delete_fixup_test(ns, x)
        THEN Loop(delete_fixup_body(ns, x))
        ELSE ns

\* delete_fixup without its loop
delete_fixup_no_loop(ns, x) == RESET_RED(ns, x)

RECURSIVE delete_fixup(_, _)
delete_fixup(ns, x) ==
    LET Loop(b) == IF b.exit THEN RESET_RED(b.nodes, b.x)
                   ELSE delete_fixup(b.nodes, b.x)
    IN  IF delete_fixup_test(ns, x)
        THEN Loop(delete_fixup_body(ns, x))
        ELSE RESET_RED(ns, x)

\* move_last that copies the slot and leaves the links to it as they are
move_last_no_relink(ns, y, z) == [ns EXCEPT ![y] = ns[z]]

\* nodes[y] = nodes[z] and the relinking of z's children and parent (lines 410-421)
move_last(ns, y, z) ==
    LET \* lines 417-421
        Relink(m3, p) ==
            IF LEFT(m3, p) = z THEN SET_CHILD(m3, p, 0, y) ELSE SET_CHILD(m3, p, 1, y)
        ToParent(m3) == Relink(m3, PARENT(m3, z))
        \* line 414
        RightChild(m2) == ToParent(SET_PARENT(m2, RIGHT(m2, z), y))
        \* line 413
        LeftChild(m1) == RightChild(SET_PARENT(m1, LEFT(m1, z), y))
    IN  LeftChild([ns EXCEPT ![y] = ns[z]])

\* move_current that leaves the cursor on the slot that is freed
move_current_stays(cur, y, z) == cur

\* the cursor after the compaction (lines 423-425)
move_current(cur, y, z) == IF cur = z THEN y ELSE cur

\* splice_current that does not follow the successor's entry into z
splice_current_no_redirect(tree, z, y) ==
    IF y = z
    THEN IF tree.current = y THEN node_successor(tree, y) ELSE tree.current
    ELSE tree.current

\* splice_current that does not step off a node that is spliced out
splice_current_no_advance(tree, z, y) ==
    IF y = z
    THEN tree.current
    ELSE IF tree.current = y THEN z ELSE tree.current

\* the cursor before the splice (lines 371-373 and 381-383)
splice_current(tree, z, y) ==
    IF y = z
    THEN IF tree.current = y THEN node_successor(tree, y) ELSE tree.current
    ELSE IF tree.current = y THEN z ELSE tree.current

\* splice_out that does not copy the successor's entry into z
splice_out_no_copy(tree, z) ==
    LET ns   == tree.nodes
        one  == IS_NIL(LEFT(ns, z)) \/ IS_NIL(RIGHT(ns, z))
        With(y) ==
            LET Promote(n2, x, p) ==
                    [nodes |-> IF LEFT(n2, p) = y THEN SET_CHILD(n2, p, 0, x)
                               ELSE SET_CHILD(n2, p, 1, x),
                     x |-> x, y |-> y]
                Splice(n1) ==
                    LET x == IF ~IS_NIL(LEFT(n1, y)) THEN LEFT(n1, y) ELSE RIGHT(n1, y)
                        p == PARENT(n1, y)
                    IN  Promote(SET_PARENT(n1, x, p), x, p)
            IN  Splice(ns)
    IN  With(IF one THEN z ELSE node_successor(tree, z))

\* splice_out that sets the parent of the promoted child only when the
\* child is a node
splice_out_no_nil_parent(tree, z) ==
    LET ns   == tree.nodes
        one  == IS_NIL(LEFT(ns, z)) \/ IS_NIL(RIGHT(ns, z))
        With(y) ==
            LET Promote(n2, x, p) ==
                    [nodes |-> IF LEFT(n2, p) = y THEN SET_CHILD(n2, p, 0, x)
                               ELSE SET_CHILD(n2, p, 1, x),
                     x |-> x, y |-> y]
                Splice(n1) ==
                    LET x == IF ~IS_NIL(LEFT(n1, y)) THEN LEFT(n1, y) ELSE RIGHT(n1, y)
                        p == PARENT(n1, y)
                    IN  Promote(IF IS_NIL(x) THEN n1 ELSE SET_PARENT(n1, x, p), x, p)
            IN  Splice(IF one THEN ns
                       ELSE [ns EXCEPT ![z].key = KEY(ns, y), ![z].data = DATA(ns, y)])
    IN  With(IF one THEN z ELSE node_successor(tree, z))

\* delete_node up to the call of delete_fixup (lines 366-398): the arena with
\* y spliced out, the child x promoted into its place, and y
splice_out(tree, z) ==
    LET ns   == tree.nodes
        one  == IS_NIL(LEFT(ns, z)) \/ IS_NIL(RIGHT(ns, z))
        \* lines 366-377: y is z, or the successor of z when z has two children
        With(y) ==
            \* lines 395-398
            LET Promote(n2, x, p) ==
                    [nodes |-> IF LEFT(n2, p) = y THEN SET_CHILD(n2, p, 0, x)
                               ELSE SET_CHILD(n2, p, 1, x),
                     x |-> x, y |-> y]
                \* lines 388-392
                Splice(n1) ==
                    LET x == IF ~IS_NIL(LEFT(n1, y)) THEN LEFT(n1, y) ELSE RIGHT(n1, y)
                        p == PARENT(n1, y)
                    IN  Promote(SET_PARENT(n1, x, p), x, p)
            IN  Splice(IF one THEN ns
                       ELSE [ns EXCEPT ![z].key = KEY(ns, y), ![z].data = DATA(ns, y)])
    IN  With(IF one THEN z ELSE node_successor(tree, z))

delete_node(tree, z) ==
    LET zl   == tree.next_free - 1
        \* lines 407-426: the last slot moves into y, next_free goes down
        Compact(n4, cur1, y) ==
            [tree EXCEPT
               !.nodes = LET Trim(n5) == [i \in 0 .. (zl - 1) |-> n5[i]]
                         IN  Trim(IF y # zl THEN move_last(n4, y, zl) ELSE n4),
               !.next_free = zl,
               !.current = IF y # zl THEN move_current(cur1, y, zl) ELSE cur1]
        \* line 401
        Balance(sp) ==
            Compact(IF ~RED(sp.nodes, sp.y) THEN delete_fixup(sp.nodes, sp.x)
                    ELSE sp.nodes,
                    splice_current(tree, z, sp.y), sp.y)
    IN  Balance(splice_out(tree, z))

-----------------------------------------------------------------------------
(* resize_nodes: ok is whether realloc succeeds *)

\* resize_nodes without the floor of two slots
resize_nodes_no_floor(tree, new_size, ok) ==
    IF ~ok THEN [tree |-> tree, ret |-> 0]
    ELSE [tree |-> [tree EXCEPT
                       !.nodes = IF tree.nodes = NoNodes
                                 THEN [i \in {NIL} |-> Sentinel]
                                 ELSE tree.nodes,
                       !.num_nodes = new_size],
          ret |-> 1]

\* resize_nodes that takes the new size although realloc has failed
resize_nodes_unchecked(tree, new_size, ok) ==
    LET size == IF new_size < 2 THEN 2 ELSE new_size
    IN  [tree |-> [tree EXCEPT
                      !.nodes = IF tree.nodes = NoNodes
                                THEN [i \in {NIL} |-> Sentinel]
                                ELSE tree.nodes,
                      !.num_nodes = size],
         ret |-> 1]

resize_nodes(tree, new_size, ok) ==
    LET size == IF new_size < 2 THEN 2 ELSE new_size
    IN  IF ~ok THEN [tree |-> tree, ret |-> 0]
        ELSE [tree |-> [tree EXCEPT
                           !.nodes = IF tree.nodes = NoNodes
                                     THEN [i \in {NIL} |-> Sentinel]
                                     ELSE tree.nodes,
                           !.num_nodes = size],
              ret |-> 1]

-----------------------------------------------------------------------------
(* The private API.  Each returns the tree, the result and the out value. *)

\* find_key that gives up below the first node
find_key_one_step(tree, node, comp, key, token) ==
    IF node = NIL THEN [node |-> node, comp |-> comp]
    ELSE LET ns == tree.nodes
             c  == Compare(tree.compare, key, KEY(ns, node), token, DATA(ns, node))
         IN  IF c = 0 THEN [node |-> node, comp |-> c]
             ELSE [node |-> NIL, comp |-> c]

\* The search loop of replace, delete and search: the node it stops at and comp.
RECURSIVE find_key(_, _, _, _, _)
find_key(tree, node, comp, key, token) ==
    IF node = NIL THEN [node |-> node, comp |-> comp]
    ELSE LET ns == tree.nodes
             c  == Compare(tree.compare, key, KEY(ns, node), token, DATA(ns, node))
         IN  IF c = 0 THEN [node |-> node, comp |-> c]
             ELSE find_key(tree, IF c < 0 THEN LEFT(ns, node) ELSE RIGHT(ns, node),
                           c, key, token)

\* lines 645-656 and 702-713: make room, then attach the leaf
grow_and_insert(tree, key, data, ok) ==
    LET Attach(t1) ==
            IF t1.next_free < t1.num_nodes
            THEN [tree |-> IF t1.next_free = 1
                           THEN attach_leaf(t1, NIL, key, data, 0).tree
                           ELSE insert_node(t1, key, data),
                  result |-> 1]
            ELSE [tree |-> t1, result |-> 0]
    IN  Attach(IF tree.next_free >= tree.num_nodes
               THEN resize_nodes(tree, 2 * tree.num_nodes, ok).tree
               ELSE tree)

\* rbtree_insert that stores into the entry that compares equal, if any
rbtree_insert_unique(tree, key, data, ok) ==
    LET Return(r) == [tree |-> r.tree, result |-> r.result, out |-> NULL]
        Found(f) ==
            IF f.comp = 0
            THEN [tree |-> [tree EXCEPT !.nodes[f.node].data = data],
                  result |-> 1, out |-> NULL]
            ELSE Return(grow_and_insert(tree, key, data, ok))
    IN  Found(IF tree.nodes = NoNodes THEN [node |-> NIL, comp |-> -1]
              ELSE find_key(tree, ROOT(tree.nodes), -1, key, data))

rbtree_insert(tree, key, data, ok) ==
    LET Return(r) == [tree |-> r.tree, result |-> r.result, out |-> NULL]
    IN  Return(grow_and_insert(tree, key, data, ok))

\* root is ROOT as the call reads it
rbtree_replace(tree, root, key, data, ok) ==
    LET Return(r) == [tree |-> r.tree, result |-> r.result, out |-> data]
        Found(f) ==
            IF f.comp = 0
            THEN [tree |-> [tree EXCEPT !.nodes[f.node].key = key,
                                        !.nodes[f.node].data = data],
                  result |-> 2,
                  out |-> DATA(tree.nodes, f.node)]
            ELSE Return(grow_and_insert(tree, key, data, ok))
    IN  Found(find_key(tree, root, -1, key, data))

\* shrink that halves an arena that is half in use
shrink_at_half(tree, ok) ==
    IF tree.next_free <= tree.num_nodes \div 2 /\ tree.min_nodes <= tree.num_nodes \div 2
    THEN resize_nodes(tree, tree.num_nodes \div 2, ok).tree
    ELSE tree

\* shrink that counts the live entries, not the slots in use
shrink_by_count(tree, ok) ==
    IF tree.next_free - 1 < tree.num_nodes \div 4 /\ tree.min_nodes <= tree.num_nodes \div 2
    THEN resize_nodes(tree, tree.num_nodes \div 2, ok).tree
    ELSE tree

\* shrink that does not look at min_nodes
shrink_no_floor(tree, ok) ==
    IF tree.next_free < tree.num_nodes \div 4
    THEN resize_nodes(tree, tree.num_nodes \div 2, ok).tree
    ELSE tree

\* lines 753-758: halve the arena when under a quarter of it is in use
shrink(tree, ok) ==
    IF tree.next_free < tree.num_nodes \div 4 /\ tree.min_nodes <= tree.num_nodes \div 2
    THEN resize_nodes(tree, tree.num_nodes \div 2, ok).tree
    ELSE tree

rbtree_delete(tree, root, key, token, ok) ==
    LET Found(f) ==
            IF f.comp = 0
            THEN [tree |-> shrink(delete_node(tree, f.node), ok),
                  result |-> 1,
                  out |-> DATA(tree.nodes, f.node)]
            ELSE [tree |-> tree, result |-> 0, out |-> token]
    IN  Found(find_key(tree, root, -1, key, token))

rbtree_search(tree, root, key, token) ==
    LET Found(f) ==
            IF f.comp = 0
            THEN [result |-> 1, out |-> DATA(tree.nodes, f.node)]
            ELSE [result |-> 0, out |-> token]
    IN  Found(find_key(tree, root, -1, key, token))

rbtree_count(tree) == tree.next_free - 1

rbtree_walk_first_r(tree, walk) ==
    LET node == node_first(tree)
    IN  IF node # NIL
        THEN [result |-> 1, key |-> KEY(tree.nodes, node), data |-> DATA(tree.nodes, node),
              walk |-> node_successor(tree, node)]
        ELSE [result |-> 0, key |-> NULL, data |-> NULL, walk |-> walk]

\* walk_next_r that starts the walk again when the cursor is NIL
rbtree_walk_next_r_wraps(tree, walk) ==
    LET node == IF IS_NIL(walk) THEN node_first(tree) ELSE walk
    IN  IF node >= tree.next_free
        THEN [result |-> 0, key |-> NULL, data |-> NULL, walk |-> walk]
        ELSE IF ~IS_NIL(node)
        THEN [result |-> 1, key |-> KEY(tree.nodes, node), data |-> DATA(tree.nodes, node),
              walk |-> node_successor(tree, node)]
        ELSE [result |-> 0, key |-> NULL, data |-> NULL, walk |-> walk]

rbtree_walk_next_r(tree, walk) ==
    LET node == walk
    IN  IF node >= tree.next_free
        THEN [result |-> 0, key |-> NULL, data |-> NULL, walk |-> walk]
        ELSE IF ~IS_NIL(node)
        THEN [result |-> 1, key |-> KEY(tree.nodes, node), data |-> DATA(tree.nodes, node),
              walk |-> node_successor(tree, node)]
        ELSE [result |-> 0, key |-> NULL, data |-> NULL, walk |-> walk]

-----------------------------------------------------------------------------
(* The validator: check_pointers and rbtree_validate. *)

RECURSIVE check_pointers(_, _)
check_pointers(tree, node) ==
    LET ns == tree.nodes
    IN  IF node # NIL
        THEN IF node = 0 \/ node >= tree.next_free THEN FALSE
             ELSE IF \/ RIGHT(ns, node) # NIL /\ PARENT(ns, RIGHT(ns, node)) # node
                     \/ LEFT(ns, node) # NIL /\ PARENT(ns, LEFT(ns, node)) # node
             THEN FALSE
             ELSE IF RED(ns, node) /\ (RED(ns, LEFT(ns, node)) \/ RED(ns, RIGHT(ns, node)))
             THEN FALSE
             ELSE check_pointers(tree, LEFT(ns, node))
                    /\ check_pointers(tree, RIGHT(ns, node))
        ELSE TRUE

\* the loop of rbtree_validate: no node compares below its predecessor
RECURSIVE check_order(_, _, _)
check_order(tree, prev, node) ==
    LET ns == tree.nodes
    IN  IF node = NIL THEN TRUE
        ELSE /\ ~(prev # NIL /\ Compare(tree.compare, KEY(ns, node), KEY(ns, prev),
                                         DATA(ns, node), DATA(ns, prev)) < 0)
             /\ check_order(tree, node, node_successor(tree, node))

\* TRUE when rbtree_validate returns 1 and none of its assertions fails
rbtree_validate(tree) ==
    LET ns == tree.nodes
    IN  /\ ~RED(ns, NIL)
        /\ tree.current < tree.next_free
        /\ IS_NIL(PARENT(ns, ROOT(ns)))
        /\ check_pointers(tree, ROOT(ns))
        /\ check_order(tree, NIL, node_first(tree))

-----------------------------------------------------------------------------
(* rbtree_create: made is FALSE when it returns NULL.  cmp is "none" for a *)
(* NULL comparator; core is whether nft_core_create returns an object, ok  *)
(* whether the realloc of resize_nodes succeeds.                           *)

NoCompare == "none"

\* rbtree_create that returns the tree although resize_nodes has failed
rbtree_create_unchecked(min, cmp, core, ok) ==
    LET tree == [nodes |-> NoNodes, next_free |-> 1, num_nodes |-> 0,
                 min_nodes |-> min, current |-> 0, compare |-> cmp]
    IN  IF min < 0 THEN [made |-> FALSE, tree |-> tree]
        ELSE IF cmp = NoCompare THEN [made |-> FALSE, tree |-> tree]
        ELSE IF ~core THEN [made |-> FALSE, tree |-> tree]
        ELSE IF min > 0
             THEN [made |-> TRUE, tree |-> resize_nodes(tree, min, ok).tree]
             ELSE [made |-> TRUE, tree |-> tree]

rbtree_create(min, cmp, core, ok) ==
    LET tree == [nodes |-> NoNodes, next_free |-> 1, num_nodes |-> 0,
                 min_nodes |-> min, current |-> 0, compare |-> cmp]
    IN  IF min < 0 THEN [made |-> FALSE, tree |-> tree]
        ELSE IF cmp = NoCompare THEN [made |-> FALSE, tree |-> tree]
        ELSE IF ~core THEN [made |-> FALSE, tree |-> tree]
        ELSE IF min > 0
             THEN LET r == resize_nodes(tree, min, ok)
                  IN  IF r.ret = 0 THEN [made |-> FALSE, tree |-> tree]
                      ELSE [made |-> TRUE, tree |-> r.tree]
             ELSE [made |-> TRUE, tree |-> tree]

-----------------------------------------------------------------------------
(* The state as a tree record, and back. *)

Tree == [nodes |-> nodes, next_free |-> next_free, num_nodes |-> num_nodes,
         min_nodes |-> min_nodes, current |-> current, compare |-> compare]

SetTree(t) ==
    /\ nodes' = t.nodes
    /\ next_free' = t.next_free
    /\ num_nodes' = t.num_nodes
    /\ min_nodes' = t.min_nodes
    /\ current' = t.current
    /\ compare' = t.compare

Live(tree) == 1 .. (tree.next_free - 1)

\* the entry stored in a slot
Entry(tree, n) == <<KEY(tree.nodes, n), DATA(tree.nodes, n)>>

\* the (key, data) pairs the tree holds
Entries(tree) == {Entry(tree, n) : n \in Live(tree)}

-----------------------------------------------------------------------------
(* What the history variables record of a call. *)

\* how many live entries compare equal to (key, data)
Had(tree, key, data) ==
    Cardinality({n \in Live(tree) :
        Compare(tree.compare, key, KEY(tree.nodes, n), data, DATA(tree.nodes, n)) = 0})

\* before: the entries the tree held before the call;
\* had: how many of them compare equal to the arguments of the call;
\* prior: of a delete that follows a successful insert of its key, the had
\* of that insert, else -1; expect and hit: see below;
\* alloc: what became of the realloc the call made, "none" when it made none;
\* peak: the largest capacity the arena has had up to the end of the call;
\* again: of a walk_next, that the call before it was a walk_next that
\* reported no-more; cmp: of a create, the comparator it was given;
\* fix: of an insert or a delete, the passes of its fixup loop
NoCall == [op |-> "create", key |-> 0, data |-> 0, res |-> 0, out |-> 0,
           had |-> 0, prior |-> -1, expect |-> <<>>, hit |-> "none",
           before |-> {}, alloc |-> "none", peak |-> 0, again |-> FALSE,
           cmp |-> "none", fix |-> <<>>]

Call(op, key, data, res, out, had) ==
    [NoCall EXCEPT !.op = op, !.key = key, !.data = data, !.res = res,
                   !.out = out, !.had = had, !.before = Entries(Tree)]

\* the entry the next walk_next of the tree-owned walk returns, <<>> for no-more
NextOfWalk(tree) ==
    LET r == rbtree_walk_next_r(tree, tree.current)
    IN  IF r.result = 1 THEN <<r.key, r.data>> ELSE <<>>

\* what the walk should return next once slot z is deleted
ExpectAfterDelete(tree, z) ==
    IF tree.current = z
    THEN LET s == node_successor(tree, z)
         IN  IF s = NIL THEN <<>> ELSE Entry(tree, s)
    ELSE NextOfWalk(tree)

\* where the cursor stands relative to the delete of slot z
HitOfDelete(tree, z) ==
    LET ns  == tree.nodes
        two == ~IS_NIL(LEFT(ns, z)) /\ ~IS_NIL(RIGHT(ns, z))
        y   == IF two THEN node_successor(tree, z) ELSE z
    IN  IF tree.current = NIL THEN "none"
        ELSE IF tree.current = z THEN (IF two THEN "copied-into" ELSE "spliced")
        ELSE IF tree.current = y THEN "copied-from"
        ELSE IF tree.current = tree.next_free - 1 /\ y # tree.next_free - 1 THEN "moved"
        ELSE "other"

\* the links from x up to the root
RECURSIVE Depth(_, _, _)
Depth(ns, x, fuel) ==
    IF x = ROOT(ns) \/ fuel = 0 THEN 0
    ELSE 1 + Depth(ns, PARENT(ns, x), fuel - 1)

\* what the pass b of a fixup loop, entered with x on the arena ns, did:
\* from and to, the depth of x before and after it; ends, the loop is left
\* after it; ws, reds and rotations as the pass reports them
Pass(ns, x, b, ws, ends) ==
    [x |-> x, from |-> Depth(ns, x, Cardinality(DOMAIN ns)),
     to |-> Depth(b.nodes, b.x, Cardinality(DOMAIN ns)), ends |-> ends,
     ws |-> ws, reds |-> b.reds, rotations |-> b.rotations]

\* the passes of insert_fixup(x) on the arena ns, at most fuel of them
RECURSIVE InsertPasses(_, _, _)
InsertPasses(ns, x, fuel) ==
    LET Rest(b) ==
            <<Pass(ns, x, b, <<>>, ~insert_fixup_test(b.nodes, b.x))>>
               \o InsertPasses(b.nodes, b.x, fuel - 1)
    IN  IF fuel > 0 /\ insert_fixup_test(ns, x)
        THEN Rest(insert_fixup_body(ns, x))
        ELSE <<>>

\* the passes of delete_fixup(x) on the arena ns, at most fuel of them
RECURSIVE DeletePasses(_, _, _)
DeletePasses(ns, x, fuel) ==
    LET Rest(b) ==
            <<Pass(ns, x, b, b.ws, b.exit \/ ~delete_fixup_test(b.nodes, b.x))>>
               \o (IF b.exit THEN <<>> ELSE DeletePasses(b.nodes, b.x, fuel - 1))
    IN  IF fuel > 0 /\ delete_fixup_test(ns, x)
        THEN Rest(delete_fixup_body(ns, x))
        ELSE <<>>

\* the passes of the fixup loop of an insert of (key, data) that finds room
FixOfInsert(tree, key, data) ==
    LET Run(l) == InsertPasses(l.tree.nodes, l.leaf, tree.next_free)
    IN  IF tree.next_free > 1 THEN Run(insert_leaf(tree, key, data)) ELSE <<>>

\* the passes of the fixup loop of the delete of slot z
FixOfDelete(tree, z) ==
    LET Run(sp) == IF ~RED(sp.nodes, sp.y)
                   THEN DeletePasses(sp.nodes, sp.x, tree.next_free)
                   ELSE <<>>
    IN  Run(splice_out(tree, z))

-----------------------------------------------------------------------------
(* The callers.  A caller is a record of the arguments it passes:          *)
(*   pairs   the (key, data) pairs it inserts and replaces                 *)
(*   tokens  the data tokens it passes to delete and search                *)
(*   limit   the number of entries it lets the tree hold                   *)
(*   unique  it inserts only keys that search does not find (test_basic)   *)
(*   oks     the outcomes of realloc it runs under                         *)
(*   trace   what the history variable `last` records of its calls: "op",  *)
(*           the operation and its result; "cursor", also where a delete   *)
(*           met the cursor; "cap", also the realloc and the capacity;     *)
(*           "fix", also the passes of the fixup loop; "call", the         *)
(*           arguments and the entries before the call                     *)

KeysOf(env) == {e[1] : e \in env.pairs}

\* realloc is called only when the arena has to grow or shrink
Oks(env, resizes) == IF resizes THEN env.oks ELSE {TRUE}

Grows == next_free >= num_nodes

\* the outcome of the realloc of a call that resizes the arena
Alloc(resizes, ok) ==
    IF ~resizes THEN "none" ELSE IF ok THEN "ok" ELSE "failed"

\* the largest capacity up to the end of a call that leaves the tree t
Peak(t) ==
    LET before == IF last.peak > num_nodes THEN last.peak ELSE num_nodes
    IN  IF t.num_nodes > before THEN t.num_nodes ELSE before

\* the record of a call under the caller env
Trace(env, op, res, fix, call) ==
    IF env.trace = "call" THEN [call EXCEPT !.alloc = "none", !.peak = 0]
    ELSE IF env.trace = "fix"
    THEN [NoCall EXCEPT !.op = op, !.res = res, !.fix = fix]
    ELSE IF env.trace = "cursor"
    THEN [NoCall EXCEPT !.op = op, !.res = res, !.hit = call.hit]
    ELSE IF env.trace = "cap"
    THEN [NoCall EXCEPT !.op = op, !.res = res,
                        !.alloc = call.alloc, !.peak = call.peak]
    ELSE [NoCall EXCEPT !.op = op, !.res = res]

\* the test of lines 756-757 after one more entry is gone
Shrinks ==
    /\ next_free - 1 < num_nodes \div 4
    /\ min_nodes <= num_nodes \div 2

-----------------------------------------------------------------------------
(* The public calls. *)

\* a call that reads ROOT through a NULL nodes pointer: the process dies
Fault(env, op, key, data) ==
    /\ nodes = NoNodes
    /\ fault' = TRUE
    /\ last' = Trace(env, op, -1, <<>>, [Call(op, key, data, -1, 0, 0) EXCEPT !.peak = Peak(Tree)])
    /\ UNCHANGED <<nodes, next_free, num_nodes, min_nodes, current, compare,
                   walking, lastkey, lockvars>>

\* ROOT as a call reads it: through a NULL pointer, a read that does not
\* fault yields zeroes
ReadRoot == IF nodes = NoNodes THEN NIL ELSE ROOT(nodes)

DoInsert(env, key, data, ok) ==
    \E r \in {rbtree_insert(Tree, key, data, ok)} :
        /\ SetTree(r.tree)
        /\ last' = Trace(env, "insert", r.result,
                     IF r.result = 1 THEN FixOfInsert(Tree, key, data) ELSE <<>>,
                     [Call("insert", key, data, r.result, 0, Had(Tree, key, data))
                        EXCEPT !.alloc = Alloc(Grows, ok), !.peak = Peak(r.tree)])
        /\ UNCHANGED <<fault, walking, lastkey, lockvars>>

Insert(env) ==
    /\ ~fault
    /\ next_free - 1 < env.limit
    /\ \E e \in env.pairs, ok \in Oks(env, Grows) :
          /\ env.unique => Had(Tree, e[1], e[2]) = 0
          /\ DoInsert(env, e[1], e[2], ok)

DoReplace(env, key, data, ok) ==
    \E r \in {rbtree_replace(Tree, ReadRoot, key, data, ok)} :
        /\ SetTree(r.tree)
        /\ last' = Trace(env, "replace", r.result,
                     IF r.result = 1 THEN FixOfInsert(Tree, key, data) ELSE <<>>,
                     [Call("replace", key, data, r.result, r.out, Had(Tree, key, data))
                        EXCEPT !.alloc = Alloc(Grows /\ r.result # 2, ok),
                               !.peak = Peak(r.tree)])
        /\ UNCHANGED <<fault, walking, lastkey, lockvars>>

Replace(env) ==
    /\ ~fault
    /\ \E e \in env.pairs :
          /\ next_free - 1 < env.limit \/ Had(Tree, e[1], e[2]) > 0
          /\ \/ Fault(env, "replace", e[1], e[2])
             \/ \E ok \in Oks(env, Grows /\ Had(Tree, e[1], e[2]) = 0) :
                   DoReplace(env, e[1], e[2], ok)

DoDelete(env, key, token, ok) ==
    \E r \in {rbtree_delete(Tree, ReadRoot, key, token, ok)},
       z \in {find_key(Tree, ReadRoot, -1, key, token).node} :
        /\ SetTree(r.tree)
        /\ last' = Trace(env, "delete", r.result,
                     IF r.result = 1 THEN FixOfDelete(Tree, z) ELSE <<>>,
                     [Call("delete", key, token, r.result, r.out, Had(Tree, key, token))
                        EXCEPT !.prior = IF /\ last.op = "insert"
                                            /\ last.res = 1
                                            /\ last.key = key
                                            /\ compare = "duplex" => last.data = token
                                         THEN last.had ELSE -1,
                               !.expect = IF r.result = 1
                                          THEN ExpectAfterDelete(Tree, z) ELSE <<>>,
                               !.hit = IF r.result = 1
                                       THEN HitOfDelete(Tree, z) ELSE "none",
                               !.alloc = Alloc(Shrinks /\ r.result = 1, ok),
                               !.peak = Peak(r.tree)])
        /\ UNCHANGED <<fault, walking, lastkey, lockvars>>

Delete(env) ==
    /\ ~fault
    /\ \E key \in KeysOf(env), token \in env.tokens :
          \/ Fault(env, "delete", key, token)
          \/ \E ok \in Oks(env, Shrinks /\ Had(Tree, key, token) > 0) :
                DoDelete(env, key, token, ok)

DoSearch(env, key, token) ==
    \E r \in {rbtree_search(Tree, ReadRoot, key, token)} :
        /\ last' = Trace(env, "search", r.result, <<>>,
                     [Call("search", key, token, r.result, r.out, Had(Tree, key, token))
                        EXCEPT !.peak = Peak(Tree)])
        /\ UNCHANGED <<nodes, next_free, num_nodes, min_nodes, current, compare,
                       fault, walking, lastkey, lockvars>>

Search(env) ==
    /\ ~fault
    /\ \E key \in KeysOf(env), token \in env.tokens :
          \/ Fault(env, "search", key, token)
          \/ DoSearch(env, key, token)

\* rbtree_walk_first: walk_first_r on &tree->current
WalkFirst ==
    /\ ~fault
    /\ \E r \in {rbtree_walk_first_r(Tree, current)} :
          /\ current' = r.walk
           /\ last' = Call("walk_first", r.key, r.data, r.result, 0, 0)
           /\ walking' = (r.result = 1)
           /\ lastkey' = r.key
    /\ UNCHANGED <<nodes, next_free, num_nodes, min_nodes, compare, fault, lockvars>>

\* rbtree_walk_next: walk_next_r on &tree->current
WalkNext ==
    /\ ~fault
    /\ \E r \in {rbtree_walk_next_r(Tree, current)} :
          /\ current' = r.walk
           /\ last' = [Call("walk_next", r.key, r.data, r.result, 0, 0)
                          EXCEPT !.again = (last.op = "walk_next" /\ last.res = 0)]
           /\ walking' = (walking /\ r.result = 1)
           /\ lastkey' = IF walking /\ r.result = 1 THEN r.key ELSE 0
    /\ UNCHANGED <<nodes, next_free, num_nodes, min_nodes, compare, fault, lockvars>>

-----------------------------------------------------------------------------
(* The lock, and the public calls as the threads of a shared tree make     *)
(* them.  A call is two steps: Enter takes the lock the call takes, Run is *)
(* the section under the lock, the unlock and the return.                  *)

Threads == 1 .. MaxThreads

\* what a thread holds of the lock: rd read locks, and the write lock or not
NoLock == [rd |-> 0, wr |-> FALSE]

\* pthread_rwlock_rdlock returns while no thread holds the write lock
CanRdLock(lk) == \A u \in DOMAIN lk : ~lk[u].wr

rbtree_rdlock(lk, t) == [lk EXCEPT ![t].rd = @ + 1]

\* a write lock that is given while other threads hold read locks
CanWrLock_beside_readers(lk) == \A u \in DOMAIN lk : ~lk[u].wr

\* pthread_rwlock_wrlock returns while no thread holds the lock at all
CanWrLock(lk) == \A u \in DOMAIN lk : ~lk[u].wr /\ lk[u].rd = 0

rbtree_wrlock(lk, t) == [lk EXCEPT ![t].wr = TRUE]

\* an unlock that leaves the write lock held
rbtree_unlock_keeps_write(lk, t) ==
    IF lk[t].wr THEN lk ELSE [lk EXCEPT ![t].rd = @ - 1]

rbtree_unlock(lk, t) ==
    IF lk[t].wr THEN [lk EXCEPT ![t].wr = FALSE] ELSE [lk EXCEPT ![t].rd = @ - 1]

\* the mode in which thread t holds the lock
Held(lk, t) == IF lk[t].wr THEN "wr" ELSE IF lk[t].rd > 0 THEN "rd" ELSE "none"

\* the lock each call takes when tree->locking is set: rbtree_wrlock,
\* rbtree_rdlock, or none
LockOf(op) ==
    IF op \in {"insert", "replace", "delete"} THEN "wr"
    ELSE IF op \in {"search", "walk_first", "walk_next",
                    "walk_first_r", "walk_next_r"} THEN "rd"
    ELSE "none"

\* a thread between its calls; walk is the cursor it keeps for the _r walk
Idle(walk) == [at |-> "idle", op |-> "none", key |-> 0, walk |-> walk]

NoThreads == [t \in Threads |-> Idle(NIL)]

\* if (tree->locking) rbtree_wrlock(tree) / rbtree_rdlock(tree)
Enter(t, op, key) ==
    /\ ~fault
    /\ pc[t].at = "idle"
    /\ op = "insert" => (next_free - 1 < MaxLockKey /\ Had(Tree, key, key) = 0)
    /\ IF locking = 0 \/ LockOf(op) = "none" THEN UNCHANGED rwlock
       ELSE IF LockOf(op) = "wr"
       THEN CanWrLock(rwlock) /\ rwlock' = rbtree_wrlock(rwlock, t)
       ELSE /\ CanRdLock(rwlock)
            /\ rwlock[t].rd < MaxHeld
            /\ rwlock' = rbtree_rdlock(rwlock, t)
    /\ pc' = [pc EXCEPT ![t] = [@ EXCEPT !.at = "in", !.op = op, !.key = key]]
    /\ UNCHANGED <<nodes, next_free, num_nodes, min_nodes, current, compare,
                   fault, last, walking, lastkey, locking>>

\* if (tree->locking) rbtree_unlock(tree); return result
Return(t, walk) ==
    /\ rwlock' = IF locking = 0 \/ LockOf(pc[t].op) = "none" THEN rwlock
                 ELSE rbtree_unlock(rwlock, t)
    /\ pc' = [pc EXCEPT ![t] = Idle(walk)]

\* insert, replace and delete from the lock on
RunWrite(t) ==
    LET op  == pc[t].op
        key == pc[t].key
    IN  /\ pc[t].at = "in"
        /\ op \in {"insert", "replace", "delete"}
        /\ \E r \in {IF op = "insert" THEN rbtree_insert(Tree, key, key, TRUE)
                      ELSE IF op = "replace"
                      THEN rbtree_replace(Tree, ROOT(nodes), key, key, TRUE)
                      ELSE rbtree_delete(Tree, ROOT(nodes), key, NULL, TRUE)} :
              SetTree(r.tree)
        /\ Return(t, pc[t].walk)
        /\ UNCHANGED <<fault, last, walking, lastkey, locking>>

\* search and count from the lock on: they read
RunRead(t) ==
    /\ pc[t].at = "in"
    /\ pc[t].op \in {"search", "count"}
    /\ Return(t, pc[t].walk)
    /\ UNCHANGED <<nodes, next_free, num_nodes, min_nodes, current, compare,
                   fault, last, walking, lastkey, locking>>

\* the walk calls that work on the thread's own cursor, not on tree->current
OwnWalk(op) == op \in {"walk_first_r", "walk_next_r"}

\* walk_first and walk_first_r, and walk_next and walk_next_r on a cursor
\* below next_free, from the lock on: *walk is written when an entry is
\* returned
RunWalk(t) ==
    LET op   == pc[t].op
        walk == IF OwnWalk(op) THEN pc[t].walk ELSE current
    IN  /\ pc[t].at = "in"
        /\ op \in {"walk_first", "walk_first_r", "walk_next", "walk_next_r"}
        /\ op \in {"walk_next", "walk_next_r"} => walk < next_free
        /\ \E r \in {IF op \in {"walk_first", "walk_first_r"}
                      THEN rbtree_walk_first_r(Tree, walk)
                      ELSE rbtree_walk_next_r(Tree, walk)} :
              /\ current' = IF OwnWalk(op) THEN current ELSE r.walk
              /\ Return(t, IF OwnWalk(op) THEN r.walk ELSE pc[t].walk)
        /\ UNCHANGED <<nodes, next_free, num_nodes, min_nodes, compare,
                       fault, last, walking, lastkey, locking>>

\* walk_next and walk_next_r on a cursor that is not below next_free, lines
\* 862-863: the assertion stops the process, or, compiled out, the call
\* returns 0 at once
RunStale(t) ==
    /\ pc[t].at = "in"
    /\ pc[t].op \in {"walk_next", "walk_next_r"}
    /\ (IF OwnWalk(pc[t].op) THEN pc[t].walk ELSE current) >= next_free
    /\ \/ fault' = TRUE /\ UNCHANGED pc
       \/ pc' = [pc EXCEPT ![t] = Idle(@.walk)] /\ UNCHANGED fault
    /\ UNCHANGED <<nodes, next_free, num_nodes, min_nodes, current, compare,
                   last, walking, lastkey, locking, rwlock>>

\* the call thread t is in, from the lock on
Run(t) ==
    /\ ~fault
    /\ \/ RunWrite(t)
       \/ RunRead(t)
       \/ RunWalk(t)
       \/ RunStale(t)

-----------------------------------------------------------------------------
(* The specifications. *)

InitTree(t) ==
    /\ nodes = t.nodes
    /\ next_free = t.next_free
    /\ num_nodes = t.num_nodes
    /\ min_nodes = t.min_nodes
    /\ current = t.current
    /\ compare = t.compare

\* the state rbtree_create(min, cmp) returns, for min in mins
InitOf(cmp, mins) ==
    /\ \E min \in mins :
          LET c == rbtree_create(min, cmp, TRUE, TRUE)
          IN  c.made /\ InitTree(c.tree)
    /\ fault = FALSE
    /\ last = NoCall
    /\ walking = FALSE
    /\ lastkey = 0
    /\ locking = 0
    /\ rwlock = [t \in Threads |-> NoLock]
    /\ pc = NoThreads

\* Spec: the caller of test_basic's random loop without the walk: keys
\* a, b, c, ... each stored as its own data, inserted only when absent.
TestEnv ==
    [pairs |-> {<<k, k>> : k \in 1 .. MaxKey}, tokens |-> {NULL},
     limit |-> MaxNodes, unique |-> TRUE, oks |-> {TRUE}, trace |-> "op"]

Init == InitOf("strings", {0})

Next ==
    \/ Insert(TestEnv)
    \/ Replace(TestEnv)
    \/ Delete(TestEnv)

Spec == Init /\ [][Next]_vars

\* SpecWalk: the same caller, walking the tree with the tree-owned cursor
\* between its inserts and deletes.
WalkEnv ==
    [pairs |-> {<<k, k>> : k \in 1 .. MaxWalkKey}, tokens |-> {NULL},
     limit |-> MaxWalkKey, unique |-> TRUE, oks |-> {TRUE}, trace |-> "call"]

InitWalk == InitOf("strings", {0})

NextWalk ==
    \/ Insert(WalkEnv)
    \/ Delete(WalkEnv)
    \/ WalkFirst
    \/ WalkNext

SpecWalk == InitWalk /\ [][NextWalk]_vars

\* SpecCursor: a caller that also replaces between the calls of its walk.
CursorEnv ==
    [pairs |-> {<<k, k>> : k \in 1 .. MaxCursorKey}, tokens |-> {NULL},
     limit |-> MaxCursorKey, unique |-> TRUE, oks |-> {TRUE}, trace |-> "cursor"]

InitCursor == InitOf("strings", {0})

NextCursor ==
    \/ Insert(CursorEnv)
    \/ Replace(CursorEnv)
    \/ Delete(CursorEnv)
    \/ WalkFirst
    \/ WalkNext

SpecCursor == InitCursor /\ [][NextCursor]_vars

\* SpecDup: a caller that stores each key with either of two data, the key
\* itself and a copy of it (test_basic, lines 1308-1318), and inserts a key
\* again while the tree holds it.
Copy(k) == k + MaxDupKey

DupEnv ==
    [pairs |-> {<<k, k>> : k \in 1 .. MaxDupKey}
                 \cup {<<k, Copy(k)>> : k \in 1 .. MaxDupKey},
     tokens |-> {NULL},
     limit |-> MaxDupNodes, unique |-> FALSE, oks |-> BOOLEAN, trace |-> "call"]

InitDup == InitOf("strings", {0})

NextDup ==
    \/ Insert(DupEnv)
    \/ Replace(DupEnv)
    \/ Delete(DupEnv)
    \/ Search(DupEnv)

SpecDup == InitDup /\ [][NextDup]_vars

\* SpecEqual: the same caller when realloc does not fail and it only
\* inserts and deletes.
EqualEnv == [DupEnv EXCEPT !.oks = {TRUE}]

NextEqual ==
    \/ Insert(EqualEnv)
    \/ Delete(EqualEnv)

SpecEqual == InitDup /\ [][NextEqual]_vars

\* SpecDuplex: the caller of test_duplex_keys: one key per several data,
\* under the duplex comparator.
DuplexEnv ==
    [pairs |-> (1 .. MaxDupKey) \X (1 .. MaxData), tokens |-> 1 .. MaxData,
     limit |-> MaxDupNodes, unique |-> TRUE, oks |-> {TRUE}, trace |-> "call"]

InitDuplex == InitOf("duplex", {0})

NextDuplex ==
    \/ Insert(DuplexEnv)
    \/ Delete(DuplexEnv)

SpecDuplex == InitDuplex /\ [][NextDuplex]_vars

\* SpecCap: a caller that creates the tree with one of several min_nodes and
\* runs under a realloc that can fail.  The min_nodes: 0, no arena until the
\* first insert; 1, an arena of the least size, 2; 3, an odd capacity; 8, a
\* floor that an emptied tree would shrink below.
CapMins == {0, 1, 3, 8}

CapEnv ==
    [pairs |-> {<<k, k>> : k \in 1 .. MaxCapKey}, tokens |-> {NULL},
     limit |-> MaxCapKey, unique |-> TRUE, oks |-> BOOLEAN, trace |-> "cap"]

InitCap == InitOf("strings", CapMins)

NextCap ==
    \/ Insert(CapEnv)
    \/ Replace(CapEnv)
    \/ Delete(CapEnv)

SpecCap == InitCap /\ [][NextCap]_vars

\* SpecLock: the threads that share the tree nft_rbtree_new returns, which
\* has its locking enabled.
LockCalls ==
    ({"insert", "replace", "delete", "search"} \X (1 .. MaxLockKey))
        \cup ({"walk_first", "walk_next", "walk_first_r", "walk_next_r", "count"}
                 \X {NULL})

InitLock ==
    /\ \E c \in {rbtree_create(MaxLockKey, "strings", TRUE, TRUE)} :
          c.made /\ InitTree(c.tree)
    /\ fault = FALSE
    /\ last = NoCall
    /\ walking = FALSE
    /\ lastkey = 0
    /\ locking = 1
    /\ rwlock = [t \in Threads |-> NoLock]
    /\ pc = NoThreads

NextLock ==
    \E t \in Threads :
        \/ \E c \in LockCalls : Enter(t, c[1], c[2])
        \/ Run(t)

SpecLock == InitLock /\ [][NextLock]_vars

\* SpecShare: threads that insert, replace, delete and search in such a
\* tree and walk it with the tree-owned cursor, which is never at or above
\* next_free (C9).
ShareCalls ==
    ({"insert", "replace", "delete", "search"} \X (1 .. MaxLockKey))
        \cup ({"walk_first", "walk_next"} \X {NULL})

InitShare == InitLock

NextShare ==
    \E t \in Threads :
        \/ \E c \in ShareCalls : Enter(t, c[1], c[2])
        \/ ~fault /\ RunWrite(t)
        \/ ~fault /\ RunRead(t)
        \/ ~fault /\ RunWalk(t)

SpecShare == InitShare /\ [][NextShare]_vars

\* SpecToggle: threads that insert, replace, delete and search in such a
\* tree while any of them, between its calls, sets tree->locking.
ToggleCalls == {"insert", "replace", "delete", "search"} \X (1 .. MaxLockKey)

\* rbtree_locking(tree, enabled) by thread t
SetLocking(t, enabled) ==
    /\ ~fault
    /\ pc[t].at = "idle"
    /\ locking' = enabled
    /\ UNCHANGED <<nodes, next_free, num_nodes, min_nodes, current, compare,
                   fault, last, walking, lastkey, rwlock, pc>>

\* the rbtree_unlock at the end of the call thread t is in acts on a lock
\* that t holds, or is not called
Paired(t) ==
    locking = 0 \/ LockOf(pc[t].op) = "none" \/ Held(rwlock, t) # "none"

\* a call that did not take the lock and finds tree->locking set at its
\* end: pthread_rwlock_unlock on a lock the thread does not hold returns an
\* error, which stops the process at the assert of line 559, or returns 0
\* with the lock as it was or with the lock of another thread released
RunUnheld(t) ==
    /\ ~fault
    /\ pc[t].at = "in"
    /\ ~Paired(t)
    /\ \E r \in {IF pc[t].op = "insert"
                  THEN rbtree_insert(Tree, pc[t].key, pc[t].key, TRUE)
                  ELSE IF pc[t].op = "replace"
                  THEN rbtree_replace(Tree, ROOT(nodes), pc[t].key, pc[t].key, TRUE)
                  ELSE IF pc[t].op = "delete"
                  THEN rbtree_delete(Tree, ROOT(nodes), pc[t].key, NULL, TRUE)
                  ELSE [tree |-> Tree]} :
          SetTree(r.tree)
    /\ \/ fault' = TRUE /\ UNCHANGED <<pc, rwlock>>
       \/ /\ pc' = [pc EXCEPT ![t] = Idle(@.walk)]
          /\ rwlock' \in {rwlock}
                 \cup {rbtree_unlock(rwlock, u) :
                          u \in {v \in Threads : Held(rwlock, v) # "none"}}
          /\ UNCHANGED fault
    /\ UNCHANGED <<last, walking, lastkey, locking>>

NextToggle ==
    \E t \in Threads :
        \/ \E c \in ToggleCalls : Enter(t, c[1], c[2])
        \/ \E enabled \in {0, 1} : SetLocking(t, enabled)
        \/ ~fault /\ Paired(t) /\ RunWrite(t)
        \/ ~fault /\ Paired(t) /\ RunRead(t)
        \/ RunUnheld(t)

SpecToggle == InitShare /\ [][NextToggle]_vars

\* SpecFair: the threads of SpecShare on a lock that serves them in the
\* order in which they asked for it.  A call is three steps: Start, the
\* call of rbtree_wrlock or rbtree_rdlock, after which the thread waits;
\* Acquire, the return of that call with the lock; Run.  No two threads
\* have calls under way that would both add the same key.
Pending(t) == pc[t].at # "idle"

Waiting(t) == pc[t].at = "waiting"

Adds(op) == op \in {"insert", "replace"}

\* thread t calls op: if (tree->locking) rbtree_wrlock(tree) / rbtree_rdlock(tree)
Start(t, op, key) ==
    /\ ~fault
    /\ pc[t].at = "idle"
    /\ locking = 1
    /\ op = "insert" =>
          /\ Had(Tree, key, key) = 0
          /\ \A u \in Threads :
                (Pending(u) /\ Adds(pc[u].op)) => pc[u].key # key
    /\ op = "replace" =>
          \A u \in Threads :
              (Pending(u) /\ pc[u].op = "insert") => pc[u].key # key
    /\ pc' = [pc EXCEPT ![t] = [at |-> "waiting", op |-> op, key |-> key,
                                walk |-> @.walk,
                                ahead |-> {u \in Threads : Waiting(u)}]]
    /\ UNCHANGED <<nodes, next_free, num_nodes, min_nodes, current, compare,
                   fault, last, walking, lastkey, locking, rwlock>>

\* pthread_rwlock_wrlock or pthread_rwlock_rdlock returns in thread t: no
\* thread that asked before t is still waiting, and the lock can be given
CanAcquire(t) ==
    /\ ~fault
    /\ Waiting(t)
    /\ pc[t].ahead = {}
    /\ IF LockOf(pc[t].op) = "wr" THEN CanWrLock(rwlock) ELSE CanRdLock(rwlock)

Acquire(t) ==
    /\ CanAcquire(t)
    /\ rwlock' = IF LockOf(pc[t].op) = "wr"
                 THEN rbtree_wrlock(rwlock, t) ELSE rbtree_rdlock(rwlock, t)
    /\ pc' = [u \in Threads |->
                IF u = t
                THEN [at |-> "in", op |-> pc[t].op, key |-> pc[t].key,
                      walk |-> pc[t].walk]
                ELSE IF Waiting(u) THEN [pc[u] EXCEPT !.ahead = @ \ {t}]
                ELSE pc[u]]
    /\ UNCHANGED <<nodes, next_free, num_nodes, min_nodes, current, compare,
                   fault, last, walking, lastkey, locking>>

\* the calls of the threads that wait for the lock
FairCalls ==
    ({"insert", "replace", "delete", "search"} \X (1 .. MaxFairKey))
        \cup ({"walk_first", "walk_next"} \X {NULL})

InitFair == InitLock

NextFair ==
    \E t \in Threads :
        \/ \E c \in FairCalls : Start(t, c[1], c[2])
        \/ Acquire(t)
        \/ Run(t)

\* a thread inside a call has a step of Run, whatever its call and cursor
CanRun(t) == ~fault /\ pc[t].at = "in"

\* a thread whose lock call can return does return, and a thread inside a
\* call runs on: WF_vars(Acquire(t)) /\ WF_vars(Run(t)), written with the
\* conditions under which the two actions are enabled
Fairness ==
    \A t \in Threads :
        /\ []<>(~CanAcquire(t)) \/ []<><<Acquire(t)>>_vars
        /\ []<>(~CanRun(t)) \/ []<><<Run(t)>>_vars

\* CanAcquire and CanRun are the conditions under which they are enabled
EnabledWhenCan ==
    \A t \in Threads :
        /\ CanAcquire(t) <=> ENABLED <<Acquire(t)>>_vars
        /\ CanRun(t) <=> ENABLED <<Run(t)>>_vars

SpecFair == InitFair /\ [][NextFair]_vars /\ Fairness

\* SpecCreate: a caller that calls rbtree_create with arguments of every
\* kind, under an allocator that can fail, until it has a tree, and then
\* inserts and deletes.  Before the call there is no tree: the state holds
\* no comparator, and current and locking are what the memory of the tree
\* holds before rbtree_create writes to it.
MaxCreateKey == 2

CreateMins == {-1, 0, 1, 3}

CreateCompares == {NoCompare, "strings", "duplex"}

CreateEnv ==
    [pairs |-> {<<k, k>> : k \in 1 .. MaxCreateKey}, tokens |-> 1 .. MaxCreateKey,
     limit |-> MaxCreateKey, unique |-> TRUE, oks |-> {TRUE}, trace |-> "op"]

HasTree == compare # NoCompare

InitCreate ==
    /\ nodes = NoNodes
    /\ next_free = 0
    /\ num_nodes = 0
    /\ min_nodes = 0
    /\ current \in {0, 1}
    /\ compare = NoCompare
    /\ fault = FALSE
    /\ last = [NoCall EXCEPT !.op = "none"]
    /\ walking = FALSE
    /\ lastkey = 0
    /\ locking \in {0, 1}
    /\ rwlock = [t \in Threads |-> NoLock]
    /\ pc = NoThreads

\* what became of the allocations of a create: "none" when it made none,
\* "nomem" when nft_core_create returned no object, else that of the realloc
AllocOfCreate(min, cmp, core, ok) ==
    IF min < 0 \/ cmp = NoCompare THEN "none"
    ELSE IF ~core THEN "nomem"
    ELSE Alloc(min > 0, ok)

\* rbtree_create(class, size, min, cmp): on failure no tree is returned
Create(min, cmp, core, ok) ==
    LET c == rbtree_create(min, cmp, core, ok)
    IN  /\ ~HasTree
        /\ IF c.made
           THEN SetTree(c.tree) /\ locking' = 0
           ELSE UNCHANGED <<nodes, next_free, num_nodes, min_nodes, current,
                            compare, locking>>
        /\ last' = [NoCall EXCEPT !.op = "create", !.key = min, !.cmp = cmp,
                                  !.res = IF c.made THEN 1 ELSE 0,
                                  !.alloc = AllocOfCreate(min, cmp, core, ok)]
        /\ UNCHANGED <<fault, walking, lastkey, rwlock, pc>>

NextCreate ==
    \/ \E min \in CreateMins, cmp \in CreateCompares, core, ok \in BOOLEAN :
          Create(min, cmp, core, ok)
    \/ HasTree /\ Insert(CreateEnv)
    \/ HasTree /\ Delete(CreateEnv)

SpecCreate == InitCreate /\ [][NextCreate]_vars

\* SpecReent: callers that each walk the tree with the re-entrant calls and
\* a cursor of their own, their calls interleaved in any order, and a
\* caller that inserts and deletes while none of these walks is in
\* progress.  Of each walker pc holds where it is (idle, walking from a
\* walk_first_r that returned an entry, done after a no-more), its cursor
\* and the entries its walk has yielded.
MaxReentKey == 3

ReentEnv ==
    [pairs |-> {<<k, k>> : k \in 1 .. MaxReentKey}, tokens |-> {NULL},
     limit |-> MaxReentKey, unique |-> TRUE, oks |-> {TRUE}, trace |-> "op"]

NoWalk == [at |-> "idle", walk |-> NIL, seen |-> <<>>]

InitReent ==
    /\ \E c \in {rbtree_create(0, "strings", TRUE, TRUE)} :
          c.made /\ InitTree(c.tree)
    /\ fault = FALSE
    /\ last = NoCall
    /\ walking = FALSE
    /\ lastkey = 0
    /\ locking = 0
    /\ rwlock = [t \in Threads |-> NoLock]
    /\ pc = [t \in Threads |-> NoWalk]

NoneWalking == \A t \in Threads : pc[t] = NoWalk

\* an insert or a delete before the walks
Mutate ==
    /\ NoneWalking
    /\ Insert(ReentEnv) \/ Delete(ReentEnv)

\* the walker after a call that returned r
Walked(w, r) ==
    IF r.result = 1
    THEN [at |-> "walking", walk |-> r.walk, seen |-> Append(w.seen, <<r.key, r.data>>)]
    ELSE [w EXCEPT !.at = "done"]

\* walk_next_r on the cursor of the tree, as rbtree_walk_next calls it
WalkNextR_shared(t) ==
    /\ ~fault
    /\ pc[t].at = "walking"
    /\ \E r \in {rbtree_walk_next_r(Tree, current)} :
          /\ pc' = [pc EXCEPT ![t] = Walked(@, r)]
           /\ current' = r.walk
    /\ UNCHANGED <<nodes, next_free, num_nodes, min_nodes, compare,
                   fault, last, walking, lastkey, locking, rwlock>>

\* rbtree_walk_next_r(tree, &key, &data, &walk) by walker t
WalkNextR(t) ==
    /\ ~fault
    /\ pc[t].at = "walking"
    /\ pc' = [pc EXCEPT ![t] = Walked(@, rbtree_walk_next_r(Tree, @.walk))]
    /\ UNCHANGED <<nodes, next_free, num_nodes, min_nodes, current, compare,
                   fault, last, walking, lastkey, locking, rwlock>>

\* rbtree_walk_first_r(tree, &key, &data, &walk) by walker t
WalkFirstR(t) ==
    /\ ~fault
    /\ pc' = [pc EXCEPT ![t] = Walked(NoWalk, rbtree_walk_first_r(Tree, @.walk))]
    /\ UNCHANGED <<nodes, next_free, num_nodes, min_nodes, current, compare,
                   fault, last, walking, lastkey, locking, rwlock>>

NextReent ==
    \/ Mutate
    \/ \E t \in Threads : WalkFirstR(t)
    \/ \E t \in Threads : WalkNextR(t)

SpecReent == InitReent /\ [][NextReent]_vars

-----------------------------------------------------------------------------
(* The fixup loops.  A caller that makes a tree as rbtree_vnew(8, ...) of   *)
(* line 1275 does, inserts distinct keys into it in any order, and deletes *)
(* one of them.                                                            *)

MaxFixKey == 6     \* the keys of this caller
FixNodes == 8      \* the min_nodes it asks for

FixEnv ==
    [pairs |-> {<<k, k>> : k \in 1 .. MaxFixKey}, tokens |-> {NULL},
     limit |-> MaxFixKey, unique |-> TRUE, oks |-> {TRUE}, trace |-> "fix"]

InitFix ==
    /\ \E c \in {rbtree_create(FixNodes, "strings", TRUE, TRUE)} :
          c.made /\ InitTree(c.tree)
    /\ fault = FALSE
    /\ last = NoCall
    /\ walking = FALSE
    /\ lastkey = 0
    /\ locking = 0
    /\ rwlock = [t \in Threads |-> NoLock]
    /\ pc = [t \in Threads |-> NoWalk]

Deleted == last.op = "delete"

InsertFix == ~Deleted /\ Insert(FixEnv)

DeleteFix ==
    /\ ~Deleted
    /\ \E key \in KeysOf(FixEnv) : DoDelete(FixEnv, key, NULL, TRUE)

NextFix == InsertFix \/ DeleteFix

SpecFix == InitFix /\ [][NextFix]_vars

-----------------------------------------------------------------------------
(* rotate on its own.  The trees are those that inserts of distinct keys   *)
(* build and those that rotations make of them; a step applies             *)
(* rotate(nodes, node, s, gs) to a node s, its parent node and one of its  *)
(* children gs, as insert_fixup and delete_fixup call it.  Of a rotation   *)
(* last holds s as key, gs as data and node as out.                        *)

MaxRotKey == 4     \* the keys of the trees

RotEnv ==
    [pairs |-> {<<k, k>> : k \in 1 .. MaxRotKey}, tokens |-> {NULL},
     limit |-> MaxRotKey, unique |-> TRUE, oks |-> {TRUE}, trace |-> "op"]

Rotated == last.op = "rotate"

InsertRot == ~Rotated /\ Insert(RotEnv)

Rotate ==
    /\ \E s \in Live(Tree), side \in {0, 1} :
          /\ ~IS_NIL(CHILD(nodes, s, side))
          /\ nodes' = rotate(nodes, PARENT(nodes, s), s, CHILD(nodes, s, side))
          /\ last' = [NoCall EXCEPT !.op = "rotate", !.key = s,
                                    !.data = CHILD(nodes, s, side),
                                    !.out = PARENT(nodes, s)]
    /\ UNCHANGED <<next_free, num_nodes, min_nodes, current, compare, fault,
                   walking, lastkey, lockvars>>

NextRot == InsertRot \/ Rotate

SpecRot == InitFix /\ [][NextRot]_vars

-----------------------------------------------------------------------------
(* Fixup loops of several passes.  A caller that, as test_basic does       *)
(* (lines 1295-1333), inserts its keys in ascending order into a tree made *)
(* by rbtree_new(0, ...) and then deletes them from either end.            *)

MaxClimbKey == 10  \* the keys of this caller
MaxOrderKey == 3   \* the keys of the caller that stamps its inserts
MaxOrderLen == 5   \* the entries it inserts

ClimbEnv ==
    [pairs |-> {<<k, k>> : k \in 1 .. MaxClimbKey}, tokens |-> {NULL},
     limit |-> MaxClimbKey, unique |-> TRUE, oks |-> {TRUE}, trace |-> "fix"]

\* the keys in the tree
Keys == {KEY(nodes, n) : n \in Live(Tree)}

InsertClimb ==
    /\ ~fault
    /\ ~Deleted
    /\ next_free <= MaxClimbKey
    /\ DoInsert(ClimbEnv, next_free, next_free, TRUE)

DeleteClimb ==
    /\ ~fault
    /\ \E key \in Keys :
          /\ (\A k \in Keys : key <= k) \/ (\A k \in Keys : key >= k)
          /\ DoDelete(ClimbEnv, key, NULL, TRUE)

NextClimb == InsertClimb \/ DeleteClimb

SpecClimb == InitReent /\ [][NextClimb]_vars

\* SpecOrder: a caller that only inserts, keys that repeat, each with the
\* number of the insert as its data, as test_duplex_keys inserts one key
\* with data "one", "two", ...; the comparator looks at the keys only.
OrderEnv ==
    [pairs |-> (1 .. MaxOrderKey) \X (1 .. MaxOrderLen), tokens |-> {NULL},
     limit |-> MaxOrderLen, unique |-> FALSE, oks |-> {TRUE}, trace |-> "call"]

InsertOrder ==
    /\ ~fault
    /\ next_free - 1 < OrderEnv.limit
    /\ \E key \in KeysOf(OrderEnv) : DoInsert(OrderEnv, key, next_free, TRUE)

NextOrder == InsertOrder

SpecOrder == InitReent /\ [][NextOrder]_vars

-----------------------------------------------------------------------------
(* The claims. *)

\* the last call was an insert, a replace or a delete
Mutation == last.op \in {"insert", "replace", "delete"}

\* ... and it returned
Completed == Mutation /\ ~fault

Allocated == nodes # NoNodes

\* a call of rbtree_validate returns 1: on a NULL arena it reads nodes[0]
\* through the NULL pointer and returns nothing
ValidatePasses == IF Allocated THEN rbtree_validate(Tree) ELSE FALSE

\* the black nodes on every path from n down to NIL, n not counted when it
\* is NIL; -1 when two paths differ
RECURSIVE BlackHeight(_, _)
BlackHeight(ns, n) ==
    IF n = NIL THEN 0
    ELSE LET l == BlackHeight(ns, LEFT(ns, n))
             r == BlackHeight(ns, RIGHT(ns, n))
         IN  IF l < 0 \/ r < 0 \/ l # r THEN -1
             ELSE l + (IF RED(ns, n) THEN 0 ELSE 1)

\* the black height of the whole tree; an unallocated arena holds no node
TreeBlackHeight == IF Allocated THEN BlackHeight(nodes, ROOT(nodes)) ELSE 0

\* C1: starting from a newly created tree, after every insert, replace and
\* delete, rbtree_validate passes: the indices reachable from the root lie in
\* [1, next_free), child and parent links agree, no red node has a red
\* child, the root's parent is NIL and the in-order sequence is
\* non-decreasing.
C1_ValidateAfterMutation == Mutation => (~fault /\ ValidatePasses)

\* what remains of C1 once the arena is allocated
ValidWhenAllocated == (Allocated /\ ~fault) => rbtree_validate(Tree)

\* C2: after every completed insert, replace and delete, all paths from any
\* node down to NIL hold the same number of black nodes.
C2_BlackHeightBalanced == Completed => TreeBlackHeight >= 0

\* a delete has left a tree of black height 2 with a red node in it
C2_Witness ==
    /\ last.op = "delete"
    /\ last.res = 1
    /\ TreeBlackHeight = 2
    /\ \E n \in Live(Tree) : RED(nodes, n)

\* the nodes of the subtree rooted at n
RECURSIVE Subtree(_, _)
Subtree(ns, n) ==
    IF n = NIL THEN {}
    ELSE {n} \cup Subtree(ns, LEFT(ns, n)) \cup Subtree(ns, RIGHT(ns, n))

\* the comparator on the entries of the nodes m and n
Cmp(m, n) ==
    Compare(compare, KEY(nodes, m), KEY(nodes, n), DATA(nodes, m), DATA(nodes, n))

\* C3, as the spec states it: after every completed mutation, every key in
\* the left subtree of a node compares less than the node's and every key
\* in its right subtree compares greater, equal keys included.
C3_StrictOrder ==
    Completed =>
        \A n \in Live(Tree) :
            /\ \A m \in Subtree(nodes, LEFT(nodes, n)) : Cmp(m, n) < 0
            /\ \A m \in Subtree(nodes, RIGHT(nodes, n)) : Cmp(m, n) > 0

\* C3, corrected: after every completed mutation, no key in the left
\* subtree of a node compares greater than the node's and no key in its
\* right subtree compares less; a key that compares equal can be on either
\* side.
C3_WeakOrder ==
    Completed =>
        \A n \in Live(Tree) :
            /\ \A m \in Subtree(nodes, LEFT(nodes, n)) : Cmp(m, n) <= 0
            /\ \A m \in Subtree(nodes, RIGHT(nodes, n)) : Cmp(m, n) >= 0

\* a rotation has put an entry into the left subtree of an equal key
C3_Witness ==
    /\ Completed
    /\ \E n \in Live(Tree) :
          \E m \in Subtree(nodes, LEFT(nodes, n)) : Cmp(m, n) = 0

\* the entries walk_next_r yields from the cursor walk on; a walk longer
\* than the arena is cut off after fuel entries
RECURSIVE WalkRest(_, _, _)
WalkRest(tree, walk, fuel) ==
    LET Rest(r) ==
            IF r.result = 0 \/ fuel = 0 THEN <<>>
            ELSE <<<<r.key, r.data>>>> \o WalkRest(tree, r.walk, fuel - 1)
    IN  Rest(rbtree_walk_next_r(tree, walk))

\* the entries of a walk from walk_first until walk_next reports no-more
WalkAll(tree) ==
    LET Rest(r) ==
            IF r.result = 0 THEN <<>>
            ELSE <<<<r.key, r.data>>>> \o WalkRest(tree, r.walk, tree.next_free)
    IN  Rest(rbtree_walk_first_r(tree, NIL))

\* C4: in every tree reachable by insert, replace and delete, a walk from
\* walk_first until walk_next reports no-more yields count() entries, none
\* of which compares less than the one before it.
C4_WalkInOrder ==
    \A w \in {WalkAll(Tree)} :
        /\ Len(w) = rbtree_count(Tree)
        /\ \A i \in 1 .. (Len(w) - 1) :
              Compare(compare, w[i + 1][1], w[i][1], w[i + 1][2], w[i][2]) >= 0

\* a delete has left a tree of four entries whose walk climbs two levels
C4_Witness ==
    /\ last.op = "delete"
    /\ last.res = 1
    /\ rbtree_count(Tree) = MaxNodes - 1
    /\ Len(WalkAll(Tree)) = MaxNodes - 1
    /\ \E n \in Live(Tree) :
          /\ IS_NIL(RIGHT(nodes, n))
          /\ ~IS_NIL(PARENT(nodes, n))
          /\ RIGHT(nodes, PARENT(nodes, n)) = n
          /\ ~IS_NIL(PARENT(nodes, PARENT(nodes, n)))
          /\ RIGHT(nodes, PARENT(nodes, PARENT(nodes, n))) = PARENT(nodes, n)

\* what rbtree_search(key) returns in this state
SearchNow(key, token) == rbtree_search(Tree, ReadRoot, key, token)

\* C5, as the spec states it: in any tree, after a successful insert(k, v),
\* search(k) finds v, and after a delete(k) that follows it search(k) finds
\* nothing.
C5_RoundTrip ==
    /\ (last.op = "insert" /\ last.res = 1) =>
          SearchNow(last.key, NULL) = [result |-> 1, out |-> last.data]
    /\ (last.op = "delete" /\ last.res = 1 /\ last.prior >= 0) =>
          SearchNow(last.key, NULL).result = 0

\* C5, corrected: in a tree that holds no entry comparing equal to k, after
\* a successful insert(k, v), search(k) finds v, and after a delete(k) that
\* follows it search(k) finds nothing.
C5_RoundTripFresh ==
    /\ (last.op = "insert" /\ last.res = 1 /\ last.had = 0) =>
          SearchNow(last.key, NULL) = [result |-> 1, out |-> last.data]
    /\ (last.op = "delete" /\ last.res = 1 /\ last.prior = 0) =>
          SearchNow(last.key, NULL).result = 0

\* a key that the tree did not hold was inserted and deleted at once, in a
\* tree that holds other entries
C5_Witness ==
    /\ last.op = "delete"
    /\ last.res = 1
    /\ last.prior = 0
    /\ rbtree_count(Tree) >= 2

\* a replace step that finds the tree holding an entry equal to its key:
\* 2, the old data handed back, key and data stored in that node, and
\* count, capacity, shape and colors as they were
ReplacedInPlace ==
    \E z \in Live(Tree) :
        /\ Compare(compare, last'.key, KEY(nodes, z), last'.data, DATA(nodes, z)) = 0
        /\ last'.res = 2
        /\ last'.out = DATA(nodes, z)
        /\ nodes' = [nodes EXCEPT ![z].key = last'.key, ![z].data = last'.data]
        /\ next_free' = next_free
        /\ num_nodes' = num_nodes

\* a replace step that finds no equal entry: 1 and one entry more, or 0 and
\* no change when the arena has to grow and cannot
ReplacedByInsert ==
    \/ /\ last'.res = 1
       /\ next_free' = next_free + 1
    \/ /\ last'.res = 0
       /\ Grows
       /\ UNCHANGED <<nodes, next_free, num_nodes>>

\* C6: a replace on a tree holding an entry equal to k returns 2, hands
\* back the old data, stores k and the new data in that node and leaves
\* count, capacity, shape and colors unchanged; a replace on a tree with no
\* equal entry returns 1 and count grows by one (the failure of an arena
\* growth, 0, is let pass here).
C6_Replace ==
    [][last'.op = "replace" =>
          IF last'.had > 0 THEN ReplacedInPlace ELSE ReplacedByInsert]_vars

\* every entry the tree holds is found by its key and data, and nothing else
FindsExactly ==
    \A e \in DuplexEnv.pairs :
        SearchNow(e[1], e[2]) =
            IF e \in Entries(Tree) THEN [result |-> 1, out |-> e[2]]
            ELSE [result |-> 0, out |-> e[2]]

\* C7: under the duplex comparator the entries that share a key and differ
\* in data are all live after their inserts, search(key, data) finds exactly
\* the entry with that data and delete(key, data) removes that entry only
\* and leaves every other entry findable.
C7_DuplexExact ==
    LET e == <<last.key, last.data>>
    IN  /\ FindsExactly
        /\ (last.op = "insert" /\ last.res = 1) =>
              Entries(Tree) = last.before \cup {e}
        /\ (last.op = "delete" /\ last.res = 1) =>
              e \in last.before /\ Entries(Tree) = last.before \ {e}
        /\ (last.op = "delete" /\ last.res = 0) =>
              e \notin last.before /\ Entries(Tree) = last.before

\* a delete took one of the entries of a key and left another
C7_Witness ==
    /\ last.op = "delete"
    /\ last.res = 1
    /\ \E n \in Live(Tree) :
          KEY(nodes, n) = last.key /\ DATA(nodes, n) # last.data
    /\ FindsExactly

\* C8: when a delete removes the entry the tree-owned cursor would return
\* next, the next walk_next returns what was that entry's in-order successor
\* (no-more if it was the maximum); when it removes another entry, the next
\* walk_next returns what it would have returned without the delete.
C8_CursorAfterDelete ==
    (last.op = "delete" /\ last.res = 1) => NextOfWalk(Tree) = last.expect

\* a walk is in progress and a delete has copied the entry under the cursor
\* into the node it deleted
C8_Witness ==
    /\ walking
    /\ last.op = "delete"
    /\ last.res = 1
    /\ last.hit = "copied-from"
    /\ last.expect # <<>>
    /\ NextOfWalk(Tree) = last.expect

\* C9: in every reachable state the tree-owned cursor is NIL or the index
\* of a live node.
C9_CursorLive == current = NIL \/ current \in Live(Tree)

\* a delete has moved the node under the cursor into the slot it freed
C9_Witness ==
    /\ last.op = "delete"
    /\ last.res = 1
    /\ last.hit = "moved"
    /\ current \in Live(Tree)

\* C10: with unique keys and inserts and deletes between the calls of one
\* tree-owned walk, every key walk_next returns is greater than the key the
\* call before it returned.
C10_WalkIncreasing ==
    [][(walking /\ last'.op = "walk_next" /\ last'.res = 1) =>
          rbtree_compare_strings(last'.key, lastkey) > 0]_vars

\* a walk is in progress, a delete has removed the entry it was to return
\* next, and it has more to return
C10_Witness ==
    /\ walking
    /\ lastkey # NULL
    /\ last.op = "delete"
    /\ last.res = 1
    /\ last.hit = "spliced"
    /\ NextOfWalk(Tree) # <<>>

\* the links of the slots in use: the root link and every child link, and
\* the parent link of every live node
LinksInUse(tree) ==
    {tree.nodes[n].child[w] : n \in DOMAIN tree.nodes, w \in {0, 1}}
        \cup {PARENT(tree.nodes, n) : n \in Live(tree)}

\* C11: after every completed insert, replace and delete, no root, child or
\* live parent link holds an index at or above next_free, and the indices
\* reachable from the root are exactly 1 .. next_free - 1, count() of them.
C11_LiveIsReachable ==
    (Completed /\ Allocated) =>
        /\ \A i \in LinksInUse(Tree) : i < next_free
        /\ Subtree(nodes, ROOT(nodes)) = Live(Tree)
        /\ Cardinality(Subtree(nodes, ROOT(nodes))) = rbtree_count(Tree)

\* a delete has left three or more entries, all of them reachable
C11_Witness ==
    /\ Allocated
    /\ last.op = "delete"
    /\ last.res = 1
    /\ rbtree_count(Tree) >= 3
    /\ Subtree(nodes, ROOT(nodes)) = Live(Tree)

\* C16: on a tree created with min_nodes 0 whose arena is not yet
\* allocated, search and delete return not-found (0) and replace returns
\* inserted (1), and none of them reads the arena that is not there (the 0
\* of a replace whose realloc fails is let pass here).
C16_UnallocatedIsEmpty ==
    [][(nodes = NoNodes /\ last'.op \in {"search", "delete", "replace"}) =>
          /\ ~fault'
          /\ last'.res \in (IF last'.op = "replace" THEN {0, 1} ELSE {0})]_vars

\* the tree as it was before a step
Untouched == UNCHANGED <<nodes, next_free, num_nodes, min_nodes, current>>

\* C17: an insert, or a replace that has to insert, whose realloc for the
\* growth of the arena fails returns 0 and leaves nodes, next_free, the
\* capacity and the cursor as they were; an insert returns 0 in no other
\* case.
C17_GrowthFailure ==
    [][/\ (last'.op \in {"insert", "replace"} /\ last'.alloc = "failed") =>
             (last'.res = 0 /\ Untouched)
       /\ (last'.op = "insert" /\ last'.res = 0) => last'.alloc = "failed"]_vars

\* an insert into a full arena that holds entries has failed
C17_Witness ==
    /\ last.op = "insert"
    /\ last.res = 0
    /\ last.alloc = "failed"
    /\ rbtree_count(Tree) >= 1
    /\ next_free = num_nodes

\* the capacity a delete step that removes an entry leaves, given whether
\* the arena is to be halved
HalvedIf(halve) ==
    (last'.op = "delete" /\ last'.res = 1) =>
        num_nodes' = IF halve THEN num_nodes \div 2 ELSE num_nodes

C19_GrowthDoubles ==
    [][/\ (last'.op \in {"insert", "replace"} /\ last'.alloc = "ok") =>
             /\ Grows
             /\ last'.res = 1
             /\ num_nodes' = IF num_nodes = 0 THEN 2 ELSE 2 * num_nodes
       /\ (last'.op = "insert" /\ ~Grows) =>
             (last'.res = 1 /\ num_nodes' = num_nodes)]_vars

\* a replace that inserts has doubled an arena of 4 slots
C19_Witness ==
    /\ last.op = "replace"
    /\ last.res = 1
    /\ last.alloc = "ok"
    /\ num_nodes = 8
    /\ rbtree_count(Tree) = 4

Inside(t) == pc[t].at = "in" /\ LockOf(pc[t].op) # "none"

\* the mode the spec gives each call
ModeOf(op) == IF op \in {"insert", "replace", "delete"} THEN "wr" ELSE "rd"

\* C12: with locking enabled, a search, walk_first, walk_next (with either
\* cursor) or count holds the lock in shared mode while it reads the tree,
\* and an insert, replace or delete holds it in exclusive mode.
C12_HoldsLock ==
    locking = 1 =>
        \A t \in Threads :
            pc[t].at = "in" => Held(rwlock, t) = ModeOf(pc[t].op)

\* C13: with locking enabled, a call that takes the lock releases it once
\* before it returns, on every path: a thread that is in no call holds
\* nothing of the lock, and no call stops short of its return.
C13_LockReleased ==
    locking = 1 =>
        /\ ~fault
        /\ \A t \in Threads : pc[t].at = "idle" => rwlock[t] = NoLock

\* C14: with locking enabled, the arena and the tree-owned cursor are
\* written only by a thread that holds the lock in exclusive mode.
C14_WritesUnderWrLock ==
    [][locking = 1 =>
          \A t \in Threads :
              (/\ pc[t].at = "in"
               /\ pc'[t].at = "idle"
               /\ <<nodes, next_free, num_nodes, current>>'
                     # <<nodes, next_free, num_nodes, current>>)
                  => rwlock[t].wr]_vars

C21_NoMoreStays ==
    [][/\ (current = NIL /\ last'.op = "walk_next") =>
             (last'.res = 0 /\ current' = NIL)
       /\ (current = NIL /\ last'.op # "walk_first") => current' = NIL
       /\ (last'.op = "walk_first" /\ rbtree_count(Tree) = 0) =>
             last'.res = 0]_vars

\* walk_next has reported no-more twice in a row on a tree that holds
\* entries
C21_Witness ==
    /\ last.op = "walk_next"
    /\ last.res = 0
    /\ last.again
    /\ current = NIL
    /\ rbtree_count(Tree) >= 2

\* the tree a step leaves
TreeAfter ==
    [nodes |-> nodes', next_free |-> next_free', num_nodes |-> num_nodes',
     min_nodes |-> min_nodes', current |-> current', compare |-> compare']

\* how many times the entry e occurs in the walk w
Occurs(w, e) == Cardinality({i \in 1 .. Len(w) : w[i] = e})

\* the walk w without its i-th entry
Without(w, i) == SubSeq(w, 1, i - 1) \o SubSeq(w, i + 1, Len(w))

\* the walk w1 yields the entries of the walk w0, in the order they had, and
\* the entry e once more
OneMore(w0, w1, e) ==
    \E i \in 1 .. Len(w1) : w1[i] = e /\ Without(w1, i) = w0

\* C22: every insert that returns 1 adds one entry, also when the tree
\* holds entries that compare equal to its key: count() is one more than it
\* was, and a walk yields the entries it yielded before, in the order they
\* had, and the inserted (key, data) once more.
C22_InsertAddsOne ==
    [][(last'.op = "insert" /\ last'.res = 1) =>
          /\ rbtree_count(TreeAfter) = rbtree_count(Tree) + 1
          /\ OneMore(WalkAll(Tree), WalkAll(TreeAfter),
                     <<last'.key, last'.data>>)]_vars

\* an insert has added an entry that the tree held already, key and data
C22_Witness ==
    /\ last.op = "insert"
    /\ last.res = 1
    /\ last.had > 0
    /\ Occurs(WalkAll(Tree), <<last.key, last.data>>) = 2
    /\ rbtree_count(Tree) = MaxDupNodes

\* what a create step leaves, given whether it is to fail: no tree, or a
\* tree with the comparator and min_nodes it was given, count() 0, the
\* cursor NIL and locking disabled
CreatedUnless(fails) ==
    last'.op = "create" =>
        IF fails
        THEN last'.res = 0 /\ compare' = NoCompare
        ELSE /\ last'.res = 1
             /\ compare' = last'.cmp
             /\ min_nodes' = last'.key
             /\ rbtree_count(TreeAfter) = 0
             /\ current' = NIL
             /\ locking' = 0

\* C23, as the spec states it: rbtree_create returns no tree when the
\* comparator is absent, when min_nodes is negative or when the allocation
\* of the first arena fails, and in every other case returns an empty tree.
C23_CreateArenaOnly ==
    [][CreatedUnless(\/ last'.cmp = NoCompare
                     \/ last'.key < 0
                     \/ last'.alloc = "failed")]_vars

\* C23, corrected: rbtree_create returns no tree also when the allocation
\* of the tree object fails.
C23_Create ==
    [][CreatedUnless(\/ last'.cmp = NoCompare
                     \/ last'.key < 0
                     \/ last'.alloc \in {"failed", "nomem"})]_vars

\* a create with a comparator and a positive min_nodes has failed for want
\* of memory for the arena, and there is no tree
C23_Witness ==
    /\ last.op = "create"
    /\ last.res = 0
    /\ last.alloc = "failed"
    /\ last.key > 0
    /\ last.cmp # NoCompare
    /\ ~HasTree

\* C24: a delete on a tree that holds an entry comparing equal to its key
\* returns 1 and hands back the data of one such entry; count() is one less
\* than it was, and a walk yields what it yielded before without that one
\* entry, the others in the order they had.
C24_DeleteRemovesOne ==
    [][(last'.op = "delete" /\ last'.had > 0) =>
          /\ last'.res = 1
          /\ rbtree_count(TreeAfter) = rbtree_count(Tree) - 1
          /\ \E w \in {WalkAll(Tree)} :
                 \E i \in 1 .. Len(w) :
                    /\ Compare(compare, last'.key, w[i][1], last'.data, w[i][2]) = 0
                    /\ w[i][2] = last'.out
                    /\ WalkAll(TreeAfter) = Without(w, i)]_vars

\* a delete has taken one of two entries that compared equal to its key
\* and left the other
C24_Witness ==
    /\ last.op = "delete"
    /\ last.res = 1
    /\ last.had = 2
    /\ rbtree_count(Tree) = MaxDupNodes - 1
    /\ \E n \in Live(Tree) :
          KEY(nodes, n) = last.key /\ DATA(nodes, n) # last.out

\* the entries of the subtree of n from left to right, by the child links
RECURSIVE InOrder(_, _)
InOrder(ns, n) ==
    IF n = NIL THEN <<>>
    ELSE InOrder(ns, LEFT(ns, n)) \o <<<<KEY(ns, n), DATA(ns, n)>>>>
            \o InOrder(ns, RIGHT(ns, n))

\* the in-order sequence of the tree
Sequence == IF Allocated THEN InOrder(nodes, ROOT(nodes)) ELSE <<>>

\* C25: with walkers that hold cursors of their own and interleave their
\* walk_first_r and walk_next_r calls in any order, and no insert or delete
\* while a walk is in progress, every call of a walker changes nothing of
\* the tree and nothing of the other walkers; what a walk has yielded is at
\* every point the beginning of the in-order sequence of the tree, and when
\* it reports no-more it has yielded all of it.
C25_ReentrantWalks ==
    [][\A t \in Threads :
          (pc'[t] # pc[t] /\ pc'[t].at # "idle") =>
              /\ UNCHANGED <<nodes, next_free, num_nodes, min_nodes, current,
                             compare, locking>>
              /\ \A u \in Threads \ {t} : pc'[u] = pc[u]
              /\ Len(pc'[t].seen) <= Len(Sequence)
              /\ pc'[t].seen = SubSeq(Sequence, 1, Len(pc'[t].seen))
              /\ pc'[t].at = "done" => pc'[t].seen = Sequence]_vars

\* two walks are in progress at different places of a tree of three
\* entries
C25_Witness ==
    /\ rbtree_count(Tree) = MaxReentKey
    /\ \E t, u \in Threads :
          /\ pc[t].at = "walking" /\ Len(pc[t].seen) = 1
          /\ pc[u].at = "walking" /\ Len(pc[u].seen) = MaxReentKey
          /\ pc[u].walk = NIL
          /\ pc[t].walk # NIL

\* C26: a search, whatever it returns, and a delete on a tree that holds
\* no entry comparing equal to its key return normally and leave the arena,
\* next_free, the capacity and the tree-owned cursor as they were; the
\* delete returns 0.
C26_ReadsLeaveTree ==
    [][(last'.op = "search" \/ (last'.op = "delete" /\ last'.had = 0)) =>
          /\ ~fault'
          /\ Untouched
          /\ last'.op = "delete" => last'.res = 0]_vars

\* C27: in every delete, each sibling w that delete_fixup computes (at the
\* head of a pass, after the rotation of a red sibling, after the rotation
\* of the near nephew) is not the NIL sentinel, also in the passes whose x
\* is the sentinel, its parent set by the splice.
C27_SiblingNotNil ==
    Deleted =>
        \A i \in DOMAIN last.fix :
            \A j \in DOMAIN last.fix[i].ws : ~IS_NIL(last.fix[i].ws[j])

\* a delete with a pass on the sentinel that computed w three times
C27_Witness ==
    /\ Deleted
    /\ \E i \in DOMAIN last.fix :
          IS_NIL(last.fix[i].x) /\ Len(last.fix[i].ws) = 3

\* C28: the NIL sentinel is black in every state, and no pass of
\* insert_fixup or delete_fixup colors it red on the way.
C28_NilBlack ==
    /\ Allocated => ~RED(nodes, NIL)
    /\ \A i \in DOMAIN last.fix : NIL \notin last.fix[i].reds

\* a delete whose fixup loop, entered on the sentinel, colored a node red
C28_Witness ==
    /\ Deleted
    /\ ~RED(nodes, NIL)
    /\ \E i \in DOMAIN last.fix :
          IS_NIL(last.fix[i].x) /\ last.fix[i].reds # {}

\* the side of node n on which c hangs
SideOf(ns, n, c) == IF c = LEFT(ns, n) THEN 0 ELSE 1

\* every node is a child of the node its parent field names
ParentsAgree(ns) ==
    \A n \in (DOMAIN ns) \ {NIL} :
        n \in {LEFT(ns, PARENT(ns, n)), RIGHT(ns, PARENT(ns, n))}

\* C29: rotate(nodes, node, s, gs), with s a child of node and gs a child of
\* s, leaves the in-order sequence of the tree as it was, puts gs where s
\* hung under node (in the root link when node is NIL), makes s the child of
\* gs on the side opposite to the one gs hung on, and leaves every node a
\* child of the node that its parent field names.
C29_Rotate ==
    [][last'.op = "rotate" =>
          LET s    == last'.key
              gs   == last'.data
              node == last'.out
          IN  /\ InOrder(nodes', ROOT(nodes')) = InOrder(nodes, ROOT(nodes))
              /\ CHILD(nodes', node, SideOf(nodes, node, s)) = gs
              /\ IS_NIL(node) => ROOT(nodes') = gs
              /\ CHILD(nodes', gs, 1 - SideOf(nodes, s, gs)) = s
              /\ PARENT(nodes', gs) = node /\ PARENT(nodes', s) = gs
              /\ ParentsAgree(nodes')]_vars

\* a rotation at the root that moved a subtree from gs to s
C29_Witness ==
    /\ Rotated
    /\ IS_NIL(last.out)
    /\ ROOT(nodes) = last.data
    /\ LET side == SideOf(nodes, last.data, last.key)
       IN  ~IS_NIL(CHILD(nodes, last.key, 1 - side))

\* every pass of the fixup loop of the last call has moved x strictly
\* closer to the root, or has made at most k rotations and left the loop;
\* and the loop was left after the last pass recorded
Progress(k) ==
    /\ \A i \in DOMAIN last.fix :
          \/ last.fix[i].to < last.fix[i].from
          \/ last.fix[i].ends /\ last.fix[i].rotations <= k
    /\ last.fix # <<>> => last.fix[Len(last.fix)].ends

\* C30: the loops of insert_fixup and delete_fixup terminate; each pass
\* moves x strictly closer to the root, or makes at most two rotations and
\* leaves the loop.
C30_FixupTerminates == Progress(2)

\* a delete whose fixup loop made a pass that moved x up and went on, and
\* ended with a pass that rotated
C30_Witness ==
    /\ Deleted
    /\ last.res = 1
    /\ Len(last.fix) >= 2
    /\ ~last.fix[1].ends
    /\ last.fix[1].to < last.fix[1].from
    /\ last.fix[Len(last.fix)].rotations >= 1

\* C33: after every completed insert, replace and delete that leaves the
\* tree with at least one entry, the root is black: after the first insert
\* into an empty tree as after a delete that has promoted a red child into
\* the place of the root.
C33_RootBlack ==
    (Completed /\ rbtree_count(Tree) > 0) => ~RED(nodes, ROOT(nodes))

\* the first insert into the empty tree has returned 1: its leaf, attached
\* under NIL by rbtree_insert itself, is the root
C33_Witness ==
    /\ last.op = "insert"
    /\ last.res = 1
    /\ ~fault
    /\ rbtree_count(Tree) = 1
    /\ PARENT(nodes, ROOT(nodes)) = NIL
    /\ ~RED(nodes, ROOT(nodes))

\* the size resize_nodes asks realloc for
NewSize(new_size) == IF new_size < 2 THEN 2 ELSE new_size

\* the arena is unallocated with capacity 0 and next_free 1, or next_free
\* lies between 1 and the capacity
NextFreeInArena ==
    /\ ~Allocated => (num_nodes = 0 /\ next_free = 1)
    /\ Allocated => (1 <= next_free /\ next_free <= num_nodes)

\* the assertions a step meets, on the values they are evaluated on: line 439
\* by a growth, before the leaf is attached, and by a shrink, after the entry
\* is gone; lines 158-159 where a leaf is attached, after the growth
AssertionsHold ==
    /\ (last'.op \in {"insert", "replace"} /\ last'.alloc # "none") =>
          NewSize(2 * num_nodes) > next_free
    /\ (last'.op = "delete" /\ last'.alloc # "none") =>
          NewSize(num_nodes \div 2) > next_free - 1
    /\ num_nodes' > num_nodes => num_nodes' > next_free
    /\ num_nodes' < num_nodes => num_nodes' > next_free'
    /\ next_free' > next_free => (next_free > 0 /\ next_free < num_nodes')

\* C34: in every reachable state the arena is unallocated with capacity 0
\* and next_free = 1, or 1 <= next_free <= capacity; and on every step of
\* insert, replace and delete, for every min_nodes >= 0 and whether realloc
\* fails or not, the assertion new_size > next_free of every growth and
\* shrink and the assertion next_free < capacity of every leaf attachment
\* hold.
C34_NextFreeInArena == []NextFreeInArena /\ [][AssertionsHold]_vars

\* an insert into the full arena of a min_nodes = 3 tree has doubled its 3
\* slots and attached its leaf in the fourth
C34_Witness ==
    /\ last.op = "insert"
    /\ last.res = 1
    /\ last.alloc = "ok"
    /\ min_nodes = 3
    /\ num_nodes = 6
    /\ next_free = 4

\* the walk w1 is the walk w0 with the entry (key, data) put in behind
\* every entry that does not compare greater than it
PlacedAfterEquals(w0, w1, key, data) ==
    \E i \in 1 .. Len(w1) :
        /\ w1[i] = <<key, data>>
        /\ Without(w1, i) = w0
        /\ \A j \in 1 .. Len(w1) :
              /\ j < i => Compare(compare, w1[j][1], key, w1[j][2], data) <= 0
              /\ j > i => Compare(compare, w1[j][1], key, w1[j][2], data) > 0

\* entries of the walk w that compare equal come in the order of their
\* data, which is the number of the insert that added them
InInsertionOrder(w) ==
    \A i, j \in 1 .. Len(w) :
        (i < j /\ Compare(compare, w[i][1], w[j][1], w[i][2], w[j][2]) = 0) =>
            w[i][2] < w[j][2]

\* an insert that returns 1 puts its entry behind every entry that compares
\* equal to it
InsertedLast ==
    (last'.op = "insert" /\ last'.res = 1) =>
        PlacedAfterEquals(WalkAll(Tree), WalkAll(TreeAfter), last'.key, last'.data)

\* C35: insert puts the new entry behind every entry of the in-order
\* sequence whose key compares equal to its key, so that a walk of a tree
\* that has seen only inserts yields the entries with equal keys in the
\* order in which they were inserted, whatever rotations insert_fixup made.
C35_EqualKeysInInsertOrder ==
    [][InsertedLast /\ InInsertionOrder(WalkAll(TreeAfter))]_vars

\* the second of at least three inserts of one key has been rotated into
\* the root, with the first in its left subtree
C35_Witness ==
    /\ last.op = "insert"
    /\ last.res = 1
    /\ last.had >= 2
    /\ DATA(nodes, ROOT(nodes)) = 2
    /\ KEY(nodes, ROOT(nodes)) = last.key
    /\ ~IS_NIL(LEFT(nodes, ROOT(nodes)))
    /\ Entry(Tree, LEFT(nodes, ROOT(nodes))) = <<last.key, 1>>

\* thread t returns from its call on this step, or the process stops in it
Leaves(t) == pc[t].at = "in" /\ (pc'[t].at = "idle" \/ fault')

\* C32: while rbtree_locking changes tree->locking with other threads
\* inside insert, replace, delete or search, a call that took the lock when
\* it entered has released it when it returns, and a call that did not take
\* it calls no unlock.
C32_LockPaired ==
    [][\A t \in Threads :
          Leaves(t) =>
              IF Held(rwlock, t) # "none"
              THEN ~fault' /\ rwlock'[t] = NoLock
              ELSE locking = 0]_vars

\* C31: with locking enabled and a lock that serves the threads in the
\* order in which they asked, every insert, replace, delete, search,
\* walk_first and walk_next that a thread starts on the shared tree
\* returns: no thread waits for the lock for ever.
C31_CallsReturn ==
    \A t \in Threads : Pending(t) ~> (pc[t].at = "idle")

\* a writer waits for the lock while a reader holds it and is inside its
\* call
C31_Witness ==
    \E t, u \in Threads :
        /\ Waiting(t)
        /\ LockOf(pc[t].op) = "wr"
        /\ pc[u].at = "in"
        /\ Held(rwlock, u) = "rd"

=============================================================================
